---- MODULE Spec2Model ----
(***************************************************************************)
(* Command registry and dispatch pipeline of generic-cli.                  *)
(*                                                                         *)
(* The command tree is a function from paths (sequences of segment names,  *)
(* the root being <<>>) to nodes; a node's `children` is the key order of  *)
(* its JavaScript Map.  Strings that are measured or compared character by *)
(* character are sequences of one-character strings.                       *)
(***************************************************************************)
EXTENDS Integers, Sequences, FiniteSets, TLC

VARIABLES
  tree,              \* CommandRegistry.root and everything below it
  call, outcome,     \* the last registration call and how it ended
  nreg,              \* number of registration calls made
  trav,              \* result of the last direct traverse call
  beforeMiddleware,  \* CLI.#beforeMiddleware
  afterMiddleware,   \* CLI.#afterMiddleware
  config,            \* CLI.#config
  pc,                \* where CLI.run stands
  run,               \* the locals of CLI.run
  ctx,               \* the CLIContext of the run
  events,            \* what the run has done so far, in order
  out,               \* lines printed by the run
  exitCode,          \* <<code>> once the process has exited, <<>> before
  nruns,             \* number of run() calls made
  imports,           \* every import() of a lazy command that has settled
  lev,               \* the last direct call of levenshtein
  sugg,              \* the last direct call of suggestFullPath
  info,              \* CLI.#name, CLI.#version and the package-info discovery
  peer               \* a second run() in flight beside the first

regVars == <<tree, call, outcome, nreg, trav>>

mwVars == <<beforeMiddleware, afterMiddleware>>

runVars == <<config, pc, run, ctx, events, out, exitCode, nruns>>

vars == <<tree, call, outcome, nreg, trav, beforeMiddleware, afterMiddleware,
          config, pc, run, ctx, events, out, exitCode, nruns, imports, lev, sugg,
          info, peer>>

(* ------------------------------ bounds -------------------------------- *)

MaxRegs == 3

MaxHooks == 2

MaxRuns == 2

MaxLen == 3

(* --------------------------- value domains ---------------------------- *)

Undefined == "undefined"

NoLazyImport == [path |-> Undefined, symbol |-> Undefined]

EmptyOptions == [aliases |-> <<>>, hidden |-> FALSE, flagsSchema |-> Undefined]

NewNode == [handler |-> Undefined, lazyImport |-> NoLazyImport,
            options |-> EmptyOptions, children |-> <<>>]

root == <<>>

NoCall == [op |-> "none", path |-> <<>>, options |-> EmptyOptions]

NoTrav == [called |-> FALSE, path |-> <<>>, node |-> <<>>, consumed |-> 0]

(* ------------------------------ helpers ------------------------------- *)

Range(s) == {s[i] : i \in 1..Len(s)}

Prefix(s, n) == SubSeq(s, 1, n)

IsStrictPrefix(p, q) == Len(p) < Len(q) /\ Prefix(q, Len(p)) = p

Has(t, p) == p \in DOMAIN t

IsRegistered(n) == n.handler # Undefined \/ n.lazyImport # NoLazyImport

(* node.children.set(seg, child): a new key goes last, an existing key     *)
(* keeps its place and the subtree below the replaced value is dropped.    *)
MapSet(t, parent, seg, child) ==
  LET key  == Append(parent, seg)
      keep == {q \in DOMAIN t : ~IsStrictPrefix(key, q)} \cup {key}
  IN [q \in keep |->
        IF q = key THEN child
        ELSE IF q = parent /\ key \notin DOMAIN t
             THEN [t[q] EXCEPT !.children = Append(@, seg)]
             ELSE t[q]]

RECURSIVE Descend(_, _, _)
(* The loop that walks `path` from the root creating every missing node.   *)
Descend(t, path, i) ==
  IF i > Len(path) THEN t
  ELSE LET here == Prefix(path, i)
       IN Descend(IF Has(t, here) THEN t
                  ELSE MapSet(t, Prefix(path, i - 1), path[i], NewNode),
                  path, i + 1)

RECURSIVE SetAliasesNotHidden(_, _, _, _)
(* An alias loop that copies the options as they are.                      *)
SetAliasesNotHidden(t, path, aliasNode, i) ==
  IF i > Len(aliasNode.options.aliases) THEN t
  ELSE SetAliasesNotHidden(MapSet(t, Prefix(path, Len(path) - 1),
                                  aliasNode.options.aliases[i], aliasNode),
                           path, aliasNode, i + 1)

RECURSIVE SetAliases(_, _, _, _)
(* The alias loop: each alias becomes a hidden node under the parent.      *)
SetAliases(t, path, aliasNode, i) ==
  IF i > Len(aliasNode.options.aliases) THEN t
  ELSE SetAliases(MapSet(t, Prefix(path, Len(path) - 1),
                         aliasNode.options.aliases[i],
                         [aliasNode EXCEPT !.options.hidden = TRUE]),
                  path, aliasNode, i + 1)

(* A registration without the duplicate check.                             *)
RegisterResultOverwrite(t, path, handler, lazyImport, options) ==
  IF Len(path) = 0 THEN [tree |-> t, threw |-> TRUE]
  ELSE LET t1 == Descend(t, path, 1)
           t2 == [t1 EXCEPT ![path].handler = handler,
                            ![path].lazyImport = lazyImport,
                            ![path].options = options]
           aliasNode == [handler |-> handler, lazyImport |-> lazyImport,
                         options |-> options, children |-> <<>>]
       IN [tree |-> SetAliases(t2, path, aliasNode, 1), threw |-> FALSE]

(* A registration that also refuses a path below a registered command.     *)
RegisterResultPrefixClash(t, path, handler, lazyImport, options) ==
  IF Len(path) = 0 THEN [tree |-> t, threw |-> TRUE]
  ELSE LET t1 == Descend(t, path, 1)
       IN IF \E i \in 1..Len(path) : IsRegistered(t1[Prefix(path, i)])
          THEN [tree |-> t1, threw |-> TRUE]
          ELSE LET t2 == [t1 EXCEPT ![path].handler = handler,
                                    ![path].lazyImport = lazyImport,
                                    ![path].options = options]
                   aliasNode == [handler |-> handler, lazyImport |-> lazyImport,
                                 options |-> options, children |-> <<>>]
               IN [tree |-> SetAliases(t2, path, aliasNode, 1), threw |-> FALSE]

(* A registration without the empty-path check.                            *)
RegisterResultNoEmptyCheck(t, path, handler, lazyImport, options) ==
  LET t1 == Descend(t, path, 1)
  IN IF IsRegistered(t1[path]) THEN [tree |-> t1, threw |-> TRUE]
     ELSE [tree |-> [t1 EXCEPT ![path].handler = handler,
                               ![path].lazyImport = lazyImport,
                               ![path].options = options],
           threw |-> FALSE]

(* Result of a registration: the tree it leaves and whether it threw.      *)
RegisterResult(t, path, handler, lazyImport, options) ==
  IF Len(path) = 0 THEN [tree |-> t, threw |-> TRUE]
  ELSE LET t1 == Descend(t, path, 1)
       IN IF IsRegistered(t1[path]) THEN [tree |-> t1, threw |-> TRUE]
          ELSE LET t2 == [t1 EXCEPT ![path].handler = handler,
                                    ![path].lazyImport = lazyImport,
                                    ![path].options = options]
                   aliasNode == [handler |-> handler, lazyImport |-> lazyImport,
                                 options |-> options, children |-> <<>>]
               IN [tree |-> SetAliases(t2, path, aliasNode, 1), threw |-> FALSE]

RECURSIVE traverseLoopShort(_, _, _, _)
(* A traversal whose loop bound is off by one.                             *)
traverseLoopShort(t, path, node, idx) ==
  IF idx + 1 < Len(path) /\ path[idx + 1] \in Range(t[node].children)
  THEN traverseLoopShort(t, path, Append(node, path[idx + 1]), idx + 1)
  ELSE [node |-> node, consumed |-> idx]

RECURSIVE traverseLoop(_, _, _, _)
(* The while loop of traverse: follow the child named path[idx].           *)
traverseLoop(t, path, node, idx) ==
  IF idx < Len(path) /\ path[idx + 1] \in Range(t[node].children)
  THEN traverseLoop(t, path, Append(node, path[idx + 1]), idx + 1)
  ELSE [node |-> node, consumed |-> idx]

traverse(t, path) == traverseLoop(t, path, root, 0)

(* ------------------------- strings and values ------------------------- *)

(* The characters of every string the model measures.                      *)
Chars(s) ==
  CASE s = "greet" -> <<"g", "r", "e", "e", "t">>
    [] s = "user"  -> <<"u", "s", "e", "r">>
    [] s = "usr"   -> <<"u", "s", "r">>
    [] s = "add"   -> <<"a", "d", "d">>
    [] s = "ad"    -> <<"a", "d">>
    [] s = "adx"   -> <<"a", "d", "x">>
    [] s = "g"     -> <<"g">>
    [] s = "x"     -> <<"x">>
    [] s = "7"     -> <<"7">>
    [] s = "007"   -> <<"0", "0", "7">>
    [] s = "--name=Alice" -> <<"-", "-", "n", "a", "m", "e", "=", "A", "l", "i", "c", "e">>
    [] s = "--help" -> <<"-", "-", "h", "e", "l", "p">>
    [] s = "--version" -> <<"-", "-", "v", "e", "r", "s", "i", "o", "n">>
    [] s = "-q"    -> <<"-", "q">>
    [] OTHER       -> <<"?">>

RECURSIVE JoinChars(_, _)
(* parts.join(" ") on strings given as character sequences.                *)
JoinChars(parts, i) ==
  IF i > Len(parts) THEN <<>>
  ELSE IF i = Len(parts) THEN parts[i]
  ELSE parts[i] \o <<" ">> \o JoinChars(parts, i + 1)

RECURSIVE SplitChars(_, _, _)
(* cmd.split(" "): `cur` is the piece being read from position i on.       *)
SplitChars(str, i, cur) ==
  IF i > Len(str) THEN <<cur>>
  ELSE IF str[i] = " " THEN <<cur>> \o SplitChars(str, i + 1, <<>>)
  ELSE SplitChars(str, i + 1, Append(cur, str[i]))

CharsOfAll(segs) == [i \in 1..Len(segs) |-> Chars(segs[i])]

Min2(x, y) == IF x < y THEN x ELSE y

Max2(x, y) == IF x > y THEN x ELSE y

RECURSIVE LevRowShifted(_, _, _, _, _)
(* An inner loop that reads the substitution cell one place to the right.  *)
LevRowShifted(a, bj, prev, curr, i) ==
  IF i > Len(a) THEN curr
  ELSE LET cost == IF a[i] = bj THEN 0 ELSE 1
           v == Min2(Min2(curr[i] + 1, prev[i + 1] + 1), prev[i + 1] + cost)
           next == Append(curr, v)
       IN IF Len(next) = i + 1 THEN LevRowShifted(a, bj, prev, next, i + 1) ELSE next

RECURSIVE LevRow(_, _, _, _, _)
(* The inner loop over i for one character bj of b: curr[0] = j on entry.  *)
(* Rows are 1-based here, so curr[i + 1] holds the code's curr[i].  (The   *)
(* length tests of LevRow and LevCols are always true; they make TLC       *)
(* compute a row before it goes on to the next.)                           *)
LevRow(a, bj, prev, curr, i) ==
  IF i > Len(a) THEN curr
  ELSE LET cost == IF a[i] = bj THEN 0 ELSE 1
           v == Min2(Min2(curr[i] + 1, prev[i + 1] + 1), prev[i] + cost)
           next == Append(curr, v)
       IN IF Len(next) = i + 1 THEN LevRow(a, bj, prev, next, i + 1) ELSE next

RECURSIVE LevCols(_, _, _, _)
LevCols(a, b, prev, j) ==
  IF j > Len(b) THEN prev[Len(a) + 1]
  ELSE LET curr == LevRow(a, b[j], prev, <<j>>, 1)
       IN IF Len(curr) = Len(a) + 1 THEN LevCols(a, b, curr, j + 1) ELSE 0

(* A distance whose empty-string shortcut returns the wrong length.        *)
levenshteinEmptyZero(a0, b0) ==
  IF a0 = b0 THEN 0
  ELSE IF Len(a0) = 0 THEN Len(a0)
  ELSE IF Len(b0) = 0 THEN Len(a0)
  ELSE LET a == IF Len(a0) > Len(b0) THEN b0 ELSE a0
           b == IF Len(a0) > Len(b0) THEN a0 ELSE b0
       IN LevCols(a, b, [i \in 1..(Len(a) + 1) |-> i - 1], 1)

levenshtein(a0, b0) ==
  IF a0 = b0 THEN 0
  ELSE IF Len(a0) = 0 THEN Len(b0)
  ELSE IF Len(b0) = 0 THEN Len(a0)
  ELSE LET a == IF Len(a0) > Len(b0) THEN b0 ELSE a0
           b == IF Len(a0) > Len(b0) THEN a0 ELSE b0
       IN LevCols(a, b, [i \in 1..(Len(a) + 1) |-> i - 1], 1)

RECURSIVE dfsPaths(_, _, _)
(* suggestFullPath's dfs: the registered paths below `prefix`, visiting    *)
(* the children from position i on in Map order.                           *)
dfsPaths(t, prefix, i) ==
  IF i > Len(t[prefix].children) THEN <<>>
  ELSE LET path == Append(prefix, t[prefix].children[i])
       IN (IF IsRegistered(t[path]) THEN <<path>> ELSE <<>>)
          \o dfsPaths(t, path, 1) \o dfsPaths(t, prefix, i + 1)

NoSuggestion == <<>>

RECURSIVE bestCandidateLast(_, _, _, _)
(* A scan in which a candidate takes over when it is as close as the best. *)
bestCandidateLast(all, want, i, best) ==
  IF i > Len(all) THEN best
  ELSE LET cand == JoinChars(CharsOfAll(all[i]), 1)
           d    == levenshtein(want, cand)
           m    == Max2(Len(want), Len(cand))
           bc   == JoinChars(CharsOfAll(all[best]), 1)
           bd   == levenshtein(want, bc)
           bm   == Max2(Len(want), Len(bc))
           closer == IF m = 0 THEN FALSE
                     ELSE IF best = 0 THEN TRUE
                     ELSE IF bm = 0 THEN TRUE
                     ELSE d * bm <= bd * m
       IN bestCandidateLast(all, want, i + 1, IF closer THEN i ELSE best)

RECURSIVE bestCandidate(_, _, _, _)
(* The scan for the minimum of rawDist / max(lengths); a candidate takes   *)
(* over only when strictly closer.  best = 0 stands for null (Infinity).   *)
bestCandidate(all, want, i, best) ==
  IF i > Len(all) THEN best
  ELSE LET cand == JoinChars(CharsOfAll(all[i]), 1)
           d    == levenshtein(want, cand)
           m    == Max2(Len(want), Len(cand))
           bc   == JoinChars(CharsOfAll(all[best]), 1)
           bd   == levenshtein(want, bc)
           bm   == Max2(Len(want), Len(bc))
           closer == IF m = 0 THEN FALSE
                     ELSE IF best = 0 THEN TRUE
                     ELSE IF bm = 0 THEN TRUE
                     ELSE d * bm < bd * m
       IN bestCandidate(all, want, i + 1, IF closer THEN i ELSE best)

(* suggestFullPath(root, targetParts): the suggestion as characters, or    *)
(* NoSuggestion for null.  d / m < 0.3 is compared as 10 d < 3 m.          *)
suggestFullPath(t, targetParts) ==
  LET all  == dfsPaths(t, root, 1)
      want == JoinChars(targetParts, 1)
  IN IF Len(all) = 0 THEN NoSuggestion
     ELSE LET best == bestCandidate(all, want, 1, 0)
              cand == JoinChars(CharsOfAll(all[best]), 1)
              d    == levenshtein(want, cand)
              m    == Max2(Len(want), Len(cand))
          IN IF best = 0 THEN NoSuggestion
             ELSE IF 10 * d < 3 * m THEN cand ELSE NoSuggestion

(* ---------------------------- flag values ----------------------------- *)

(* A JavaScript value held under a flag key: its type, its text when it is *)
(* a scalar, its items when it is an array.                                *)
Str(s) == [type |-> "string", str |-> s, list |-> <<>>]

Num(s) == [type |-> "number", str |-> s, list |-> <<>>]

Bool(b) == [type |-> "boolean", str |-> IF b THEN "true" ELSE "false", list |-> <<>>]

Arr(l) == [type |-> "array", str |-> "", list |-> l]

Truthy(v) ==
  CASE v.type = "boolean" -> v.str = "true"
    [] v.type = "string"  -> v.str # ""
    [] v.type = "number"  -> v.str # "0"
    [] OTHER              -> TRUE

EmptyMap == [k \in {} |-> Str("")]

(* { ...f, ...g } *)
Spread(f, g) ==
  [k \in DOMAIN f \cup DOMAIN g |-> IF k \in DOMAIN g THEN g[k] ELSE f[k]]

Get(f, k) == IF k \in DOMAIN f THEN f[k] ELSE [type |-> Undefined, str |-> "", list |-> <<>>]

(* ------------------------------ parseArgs ----------------------------- *)

(* argv tokens: a positional word, --key, --key=value, -k, or the literal  *)
(* "--".  `canon` is String(Number(text)) for a numeric word.              *)
Pos(text) == [kind |-> "pos", key |-> "", value |-> "", numeric |-> FALSE,
              canon |-> text, text |-> text]

PosNum(text, canon) == [kind |-> "pos", key |-> "", value |-> "", numeric |-> TRUE,
                        canon |-> canon, text |-> text]

LongEq(key, value, text) == [kind |-> "longeq", key |-> key, value |-> value,
                             numeric |-> FALSE, canon |-> text, text |-> text]

LongEqNum(key, value, text) == [kind |-> "longeq", key |-> key, value |-> value,
                                numeric |-> TRUE, canon |-> text, text |-> text]

Long(key, text) == [kind |-> "long", key |-> key, value |-> "", numeric |-> FALSE,
                    canon |-> text, text |-> text]

Short(key, text) == [kind |-> "short", key |-> key, value |-> "", numeric |-> FALSE,
                     canon |-> text, text |-> text]

DoubleDash == [kind |-> "dd", key |-> "", value |-> "", numeric |-> FALSE,
               canon |-> "--", text |-> "--"]

BooleanFlags == {"help", "version", "quiet", "verbose"}

StringFlags == {"color", "output", "config", "otel-endpoint"}

FlagAliases(k) ==
  CASE k = "h" -> {"help"}    [] k = "help" -> {"h"}
    [] k = "V" -> {"version"} [] k = "version" -> {"V"}
    [] k = "q" -> {"quiet"}   [] k = "quiet" -> {"q"}
    [] k = "v" -> {"verbose"} [] k = "verbose" -> {"v"}
    [] OTHER -> {}

BooleanSet == BooleanFlags \cup UNION {FlagAliases(k) : k \in BooleanFlags}

SetArgument(flags, key, value) ==
  Spread(flags, [k \in {key} \cup FlagAliases(key) |-> value])

Texts(args) == [i \in 1..Len(args) |-> args[i].text]

FirstDoubleDash(args) ==
  IF \E i \in 1..Len(args) : args[i].kind = "dd"
  THEN CHOOSE i \in 1..Len(args) :
         args[i].kind = "dd" /\ \A j \in 1..(i - 1) : args[j].kind # "dd"
  ELSE 0

RECURSIVE ParseLoopNoStop(_, _, _)
(* An argument loop without stopEarly: flags are read wherever they stand. *)
ParseLoopNoStop(args, i, flags) ==
  IF i > Len(args) THEN [flags |-> flags, positional |-> <<>>]
  ELSE LET a == args[i]
           bare == IF a.key \in StringFlags THEN Str("") ELSE Bool(TRUE)
       IN CASE a.kind = "longeq" ->
                 ParseLoopNoStop(args, i + 1,
                   SetArgument(flags, a.key,
                     IF a.key \in BooleanSet THEN Bool(a.value # "false")
                     ELSE IF a.numeric /\ a.key \notin StringFlags THEN Num(a.value)
                     ELSE Str(a.value)))
            [] a.kind \in {"long", "short"} ->
                 ParseLoopNoStop(args, i + 1, SetArgument(flags, a.key, bare))
            [] OTHER ->
                 LET r == ParseLoopNoStop(args, i + 1, flags)
                 IN [flags |-> r.flags, positional |-> <<a.canon>> \o r.positional]

RECURSIVE ParseLoop(_, _, _)
(* The argument loop with stopEarly: flags are read until the first        *)
(* positional word, which ends the loop with the rest taken verbatim.      *)
ParseLoop(args, i, flags) ==
  IF i > Len(args) THEN [flags |-> flags, positional |-> <<>>]
  ELSE LET a == args[i]
           hasNext == i < Len(args)
           bare == IF a.key \in StringFlags THEN Str("") ELSE Bool(TRUE)
       IN CASE a.kind = "longeq" ->
                 ParseLoop(args, i + 1,
                   SetArgument(flags, a.key,
                     IF a.key \in BooleanSet THEN Bool(a.value # "false")
                     ELSE IF a.numeric /\ a.key \notin StringFlags THEN Num(a.value)
                     ELSE Str(a.value)))
            [] a.kind \in {"long", "short"} ->
                 IF hasNext /\ a.key \notin BooleanSet /\ args[i + 1].kind = "pos"
                 THEN ParseLoop(args, i + 2,
                        SetArgument(flags, a.key,
                          IF args[i + 1].numeric /\ a.key \notin StringFlags
                          THEN Num(args[i + 1].canon) ELSE Str(args[i + 1].text)))
                 ELSE IF hasNext /\ args[i + 1].text \in {"true", "false"}
                 THEN ParseLoop(args, i + 2,
                        SetArgument(flags, a.key, Bool(args[i + 1].text = "true")))
                 ELSE ParseLoop(args, i + 1, SetArgument(flags, a.key, bare))
            [] OTHER ->
                 [flags |-> flags,
                  positional |-> <<a.canon>> \o Texts(SubSeq(args, i + 1, Len(args)))]

(* parseArgs(argv, {boolean, string, alias, stopEarly: true, "--": true}). *)
(* Everything after the first "--" goes to the "--" key; the boolean flags *)
(* and their aliases default to false; "_" holds the positional words.     *)
parseArgs(argv) ==
  LET dd       == FirstDoubleDash(argv)
      args     == IF dd = 0 THEN argv ELSE SubSeq(argv, 1, dd - 1)
      notFlags == IF dd = 0 THEN <<>> ELSE SubSeq(argv, dd + 1, Len(argv))
      r        == ParseLoop(args, 1, EmptyMap)
      defaults == [k \in BooleanSet |-> Bool(FALSE)]
  IN Spread(Spread(defaults, r.flags),
            [k \in {"_", "--"} |->
               IF k = "_" THEN Arr(r.positional) ELSE Arr(Texts(notFlags))])

(* ---------------------------- flag schemas ---------------------------- *)

(* schema.safeParse(raw) for z.object({ name: z.string().optional()        *)
(* .default("World") }): unknown keys are stripped, a missing name gets    *)
(* the default, a name that is not a string fails.                         *)
safeParse(schema, raw) ==
  IF schema = "greetFlagsSchema"
  THEN IF "name" \notin DOMAIN raw
       THEN [success |-> TRUE, data |-> [k \in {"name"} |-> Str("World")]]
       ELSE IF raw["name"].type = "string"
       THEN [success |-> TRUE, data |-> [k \in {"name"} |-> raw["name"]]]
       ELSE [success |-> FALSE, data |-> EmptyMap]
  ELSE [success |-> TRUE, data |-> raw]

(* ------------------------- help and reporting ------------------------- *)

(* a.localeCompare(b) < 0 on the segment names in use.                     *)
Rank(s) ==
  CASE s = "add" -> 1 [] s = "g" -> 2 [] s = "greet" -> 3
    [] s = "user" -> 4 [] OTHER -> 5

RECURSIVE SortByRank(_)
SortByRank(S) ==
  IF S = {} THEN <<>>
  ELSE LET m == CHOOSE x \in S : \A y \in S : Rank(x) <= Rank(y)
       IN <<m>> \o SortByRank(S \ {m})

RECURSIVE helpRows(_, _, _)
(* formatHelpLines' dfs: one row per node that is not hidden, children in  *)
(* sorted order, nothing below a hidden node.                              *)
helpRows(t, prefix, sorted) ==
  IF sorted = <<>> THEN <<>>
  ELSE LET path == Append(prefix, Head(sorted))
       IN (IF t[path].options.hidden THEN <<>>
           ELSE <<path>> \o helpRows(t, path, SortByRank(Range(t[path].children))))
          \o helpRows(t, prefix, Tail(sorted))

formatHelpLines(t) == helpRows(t, root, SortByRank(Range(t[root].children)))

Line(stream, kind, text) == [stream |-> stream, kind |-> kind, text |-> text]

(* printHelp: nothing in quiet mode, else the help lines on stdout.        *)
printHelp(t, verbosity) ==
  IF verbosity = "quiet" THEN <<>>
  ELSE <<Line("stdout", "help", formatHelpLines(t))>>

(* unknownCommand(cmd, root, verbosity): the error, the suggestion if      *)
(* there is one, then the help.                                            *)
unknownCommand(cmd, t, verbosity) ==
  LET parts   == SplitChars(cmd, 1, <<>>)
      closest == suggestFullPath(t, parts)
  IN (IF verbosity # "quiet"
      THEN <<Line("stderr", "unknown", cmd)>>
           \o (IF closest # NoSuggestion
               THEN <<Line("stderr", "suggestion", closest)>> ELSE <<>>)
      ELSE <<>>)
     \o printHelp(t, verbosity)

(* ------------------------------ modules ------------------------------- *)

NotCallable == "notCallable"

ImportFails == "importFails"

(* What import(modPath) yields: the value under each export name.          *)
Modules(modPath) ==
  CASE modPath = "m1" -> [default |-> "m1.default", run |-> "m1.run"]
    [] modPath = "m2" -> [default |-> "m2.default", run |-> Undefined]
    [] modPath = "m3" -> [default |-> Undefined, run |-> NotCallable]
    [] OTHER -> [default |-> ImportFails, run |-> ImportFails]

IsFunction(v) == v \notin {Undefined, NotCallable, ImportFails}

(* ------------------------------ inputs -------------------------------- *)

RegPaths == {<<>>, <<"greet">>, <<"user">>, <<"user", "add">>}

Handlers == {"h1", "h2"}

LazyImports == {[path |-> "m1", symbol |-> "run"]}

GreetOptions == [aliases |-> <<"g">>, hidden |-> TRUE, flagsSchema |-> "greetFlagsSchema"]

OptionSets ==
  {EmptyOptions, GreetOptions,
   [aliases |-> <<"greet", "user">>, hidden |-> FALSE, flagsSchema |-> Undefined]}

TravPaths == {<<>>, <<"greet">>, <<"g", "x">>, <<"usr", "add">>, <<"user", "add">>,
              <<"user", "x", "add">>, <<"user", "add", "x">>}

(* The registrations of the dispatch specification.                        *)
SetupCommands ==
  {[path |-> <<"greet">>, handler |-> "h1",
    options |-> [GreetOptions EXCEPT !.hidden = FALSE]],
   [path |-> <<"user", "add">>, handler |-> "h2", options |-> EmptyOptions]}

SetupLazyCommands ==
  {[path |-> <<"user">>, modPath |-> "m1", symbol |-> "run", options |-> EmptyOptions]}

(* The registrations and command lines of the lazy-loading specification:  *)
(* a named export that is there, one that is missing beside a default      *)
(* export, one that is no function, and a lazy command with an alias.      *)
LazySetupCommands ==
  {[path |-> <<>>, handler |-> "h1", options |-> EmptyOptions],
   [path |-> <<"user", "add">>, handler |-> "h2", options |-> EmptyOptions],
   [path |-> <<"greet">>, handler |-> "h1",
    options |-> [aliases |-> <<"g", "user">>, hidden |-> FALSE, flagsSchema |-> Undefined]]}

LazySetupLazyCommands ==
  {[path |-> <<"user">>, modPath |-> "m1", symbol |-> "run", options |-> EmptyOptions],
   [path |-> <<"user">>, modPath |-> "m2", symbol |-> "run", options |-> EmptyOptions],
   [path |-> <<"user">>, modPath |-> "m3", symbol |-> "run", options |-> EmptyOptions],
   [path |-> <<"greet">>, modPath |-> "m3", symbol |-> "default",
    options |-> [aliases |-> <<"g">>, hidden |-> FALSE, flagsSchema |-> Undefined]],
   [path |-> <<>>, modPath |-> "m1", symbol |-> "default", options |-> EmptyOptions]}

LazyArgvs ==
  {<<Pos("user")>>, <<Pos("g")>>, <<Pos("greet"), Pos("x")>>, <<Pos("user"), Pos("add")>>}

(* The strings handed to levenshtein: upper and lower case are different   *)
(* characters.                                                             *)
Alphabet == {"a", "A", "b"}

Strings(n) == UNION {[1..k -> Alphabet] : k \in 0..n}

LevInputs ==
  {[called |-> FALSE, a |-> x, b |-> y, d |-> 0] : x, y \in Strings(MaxLen)}

(* The registrations and typed paths of the suggestion specification.      *)
SuggestSetupCommands ==
  {[path |-> <<"user", "add">>, handler |-> "h2", options |-> EmptyOptions],
   [path |-> <<"user", "ad">>, handler |-> "h1", options |-> EmptyOptions],
   [path |-> <<"greet">>, handler |-> "h1",
    options |-> [aliases |-> <<"g">>, hidden |-> FALSE, flagsSchema |-> Undefined]]}

SuggestSetupLazyCommands ==
  {[path |-> <<"usr">>, modPath |-> "m1", symbol |-> "run", options |-> EmptyOptions]}

TypedParts ==
  {<<"usr", "add">>, <<"user", "adx">>, <<"g">>, <<"user">>, <<"x">>, <<"greet", "x">>}

(* The registrations and command lines of the alias specification: a       *)
(* command with an alias and a subcommand, and one with an alias and a     *)
(* flags schema.                                                           *)
AliasSetupCommands ==
  {[path |-> <<"user">>, handler |-> "h1",
    options |-> [aliases |-> <<"usr">>, hidden |-> FALSE, flagsSchema |-> Undefined]],
   [path |-> <<"user", "add">>, handler |-> "h2", options |-> EmptyOptions],
   [path |-> <<"greet">>, handler |-> "h1",
    options |-> [aliases |-> <<"g">>, hidden |-> FALSE, flagsSchema |-> "greetFlagsSchema"]]}

AliasArgvs ==
  {<<Pos("usr"), Pos("add")>>, <<Pos("user"), Pos("add")>>, <<Pos("usr")>>,
   <<Pos("g"), Pos("x")>>, <<Pos("greet"), Pos("x")>>,
   <<LongEq("name", "Alice", "--name=Alice"), Pos("g")>>}

NameAlice == LongEq("name", "Alice", "--name=Alice")

(* The registrations and command lines of the pipeline specification: a    *)
(* command with a flags schema, one without, and a lazy one; words and     *)
(* flags after the command, and tokens after a literal "--".               *)
PipeSetupCommands ==
  {[path |-> <<"greet">>, handler |-> "h1",
    options |-> [aliases |-> <<>>, hidden |-> FALSE, flagsSchema |-> "greetFlagsSchema"]],
   [path |-> <<"user", "add">>, handler |-> "h2", options |-> EmptyOptions]}

PipeArgvs ==
  {<<Pos("user"), Pos("ad")>>,
   <<NameAlice, Pos("greet"), Pos("x"), DoubleDash, Pos("add"), NameAlice>>,
   <<Short("v", "-v"), Pos("user"), Pos("add"), PosNum("07", "7"), NameAlice,
     DoubleDash, Pos("user"), DoubleDash>>}

(* The paths, typed paths and command lines of the read-only               *)
(* specification: one command line prints the help, one names no command.  *)
ReadPaths == {<<"user", "add", "x">>, <<"g", "x">>}

ReadParts == {<<"usr", "add">>, <<"x">>}

ReadArgvs == {<<>>, <<Pos("usr"), Pos("add")>>}

(* The command lines and the keys of the context-store specification.      *)
StoreArgvs == {<<Pos("user"), Pos("add")>>}

StoreKeys == {"token"}

(* The registrations and command lines of the shared-resolution            *)
(* specification: a lazy command with an alias, reached by either name.    *)
ShareSetupLazyCommands ==
  {[path |-> <<"user">>, modPath |-> "m1", symbol |-> "run",
    options |-> [aliases |-> <<"usr">>, hidden |-> FALSE, flagsSchema |-> Undefined]]}

ShareArgvs == {<<Pos("user")>>, <<Pos("usr")>>, <<Pos("usr"), Pos("x")>>}

(* The command lines of the termination specification: one for each way a  *)
(* run can end.                                                            *)
LiveArgvs ==
  {<<>>, <<Long("version", "--version")>>, <<Pos("greet")>>,
   <<LongEqNum("name", "7", "--name=7"), Pos("greet")>>, <<Pos("user"), Pos("ad")>>}

(* The command lines of the two-calls specification.                       *)
ConcArgvs == {<<Pos("user")>>, <<Pos("user"), Pos("x")>>, <<Pos("greet")>>, <<>>}

(* The command lines of the package-info specification.                    *)
PkgArgvs == {<<>>, <<Long("version", "--version")>>}

(* The command lines of the interrupt specification.                       *)
SignalArgvs == {<<Pos("greet")>>, <<Pos("user"), Pos("add"), Pos("x")>>}

Argvs ==
  {<<>>,
   <<Pos("greet")>>,
   <<Pos("greet"), NameAlice>>,
   <<NameAlice, Pos("greet")>>,
   <<LongEqNum("name", "7", "--name=7"), Pos("g"), Pos("x")>>,
   <<Pos("usr"), Pos("add")>>,
   <<Pos("user"), Pos("add"), Pos("x")>>,
   <<Pos("user"), Pos("ad")>>,
   <<Short("q", "-q"), Pos("usr")>>,
   <<Long("version", "--version"), Long("help", "--help"), Pos("greet")>>,
   <<Pos("greet"), Long("help", "--help")>>,
   <<Long("help", "--help"), Pos("greet")>>,
   <<Pos("greet"), Pos("x"), DoubleDash, Pos("add")>>}

Configs ==
  {[file |-> EmptyMap, env |-> EmptyMap],
   [file |-> [k \in {"name", "output"} |-> Str("file")],
    env  |-> [k \in {"name"} |-> Str("env")]]}

(* The pipeline specification always finds a config file.                  *)
PipeConfigs == {c \in Configs : c.file # EmptyMap}

(* Every hook handed to beforeEach or afterEach is a function of its own.  *)
HookName(i) ==
  CASE i = 1 -> "mw1" [] i = 2 -> "mw2" [] i = 3 -> "mw3" [] i = 4 -> "mw4"
    [] OTHER -> "mw5"

Errors ==
  {[isCLIError |-> TRUE, exitCode |-> 2, message |-> "exists", string |-> "CLIError: exists"],
   [isCLIError |-> FALSE, exitCode |-> 0, message |-> "boom", string |-> "Error: boom"]}

NoError == [isCLIError |-> FALSE, exitCode |-> 0, message |-> "", string |-> ""]

(* --------------------------- initial state ---------------------------- *)

NotExited == <<>>

cliName == "generic-cli"

cliVersion == "0.0.0"

(* What the constructor was handed: a field left out is Undefined.         *)
CtorInfos ==
  {[name |-> n, version |-> v] : n \in {Undefined, "myapp"}, v \in {Undefined, "1.2.3"}}

(* What the first readable candidate, deno.json or deno.jsonc, holds: a    *)
(* field that is missing or no string is Undefined, and so are both when   *)
(* no candidate can be read or parsed.                                     *)
NoPackageFile == [name |-> Undefined, version |-> Undefined]

PackageFiles ==
  {NoPackageFile,
   [name |-> "pkg", version |-> "9.9.9"],
   [name |-> "pkg", version |-> Undefined],
   [name |-> "", version |-> "9.9.9"]}

(* Nothing is looked up only when neither field is at its default;         *)
(* otherwise both fields of the file are returned.                         *)
loadPackageInfo(currentName, currentVersion, file) ==
  IF currentName # cliName /\ currentVersion # cliVersion
  THEN NoPackageFile
  ELSE [name |-> file.name, version |-> file.version]

(* new CLI(given): the fields, and the discovery started and run up to its *)
(* await, its result not yet applied.                                      *)
constructor(given, file) ==
  LET name    == IF given.name = Undefined THEN cliName ELSE given.name
      version == IF given.version = Undefined THEN cliVersion ELSE given.version
  IN [given |-> given, name |-> name, version |-> version,
      loaded |-> loadPackageInfo(name, version, file), pending |-> TRUE]

(* A CLI built without arguments where no deno.json can be read, once the  *)
(* discovery has settled: it found nothing and changed nothing.            *)
DefaultInfo ==
  [constructor([name |-> Undefined, version |-> Undefined], NoPackageFile)
     EXCEPT !.pending = FALSE]

(* No second run() is in flight.                                           *)
NoPeer ==
  [pc |-> "idle", argv |-> <<>>, node |-> root, lazyImport |-> NoLazyImport,
   handler |-> Undefined, result |-> "none"]

NoRun ==
  [argv |-> <<>>, parsed |-> EmptyMap, outputMode |-> "text", verbosity |-> "normal",
   positionals |-> <<>>, node |-> root, consumed |-> 0, remainingArgs |-> <<>>,
   rawFlags |-> EmptyMap, handler |-> Undefined, lazyImport |-> NoLazyImport,
   options |-> EmptyOptions,
   validatedFlags |-> EmptyMap, mwIdx |-> 0, result |-> "none", error |-> NoError]

(* What ctx.get yields for a key that was never set.                       *)
NoValue == [run |-> 0, by |-> Undefined]

(* No ctx.get has been made yet.                                           *)
NoRead == [key |-> Undefined, at |-> Undefined, val |-> NoValue]

NoContext ==
  [built |-> FALSE, args |-> <<>>, options |-> EmptyMap, verbosity |-> "normal",
   outputMode |-> "text", span |-> "null", spanName |-> <<>>, status |-> "unset",
   ends |-> 0, aborted |-> FALSE, abortListeners |-> 0, abortCalls |-> 0,
   dataStore |-> EmptyMap, got |-> NoRead]

(* One settled import(): the node it was for, what was asked of which     *)
(* module, and the handler it yielded (Undefined when it yielded none).    *)
Imported(node, lazyImport, handler) ==
  [node |-> node, path |-> lazyImport.path, symbol |-> lazyImport.symbol,
   handler |-> handler]

NoLev == [called |-> FALSE, a |-> <<>>, b |-> <<>>, d |-> 0]

NoSugg == [called |-> FALSE, parts |-> <<>>, result |-> <<>>]

Ev(e, name) == [e |-> e, name |-> name, args |-> <<>>, flags |-> EmptyMap, code |-> 0]

Init ==
  /\ tree = [p \in {root} |-> NewNode]
  /\ call = NoCall
  /\ outcome = "none"
  /\ nreg = 0
  /\ trav = NoTrav
  /\ beforeMiddleware = <<>>
  /\ afterMiddleware = <<>>
  /\ config = EmptyMap
  /\ pc = "idle"
  /\ run = NoRun
  /\ ctx = NoContext
  /\ events = <<>>
  /\ out = <<>>
  /\ exitCode = NotExited
  /\ nruns = 0
  /\ imports = <<>>
  /\ lev = NoLev
  /\ sugg = NoSugg
  /\ info = DefaultInfo
  /\ peer = NoPeer

(* The start of a levenshtein call: any two strings, nothing else touched. *)
InitLev ==
  /\ tree = [p \in {root} |-> NewNode]
  /\ call = NoCall
  /\ outcome = "none"
  /\ nreg = 0
  /\ trav = NoTrav
  /\ beforeMiddleware = <<>>
  /\ afterMiddleware = <<>>
  /\ config = EmptyMap
  /\ pc = "idle"
  /\ run = NoRun
  /\ ctx = NoContext
  /\ events = <<>>
  /\ out = <<>>
  /\ exitCode = NotExited
  /\ nruns = 0
  /\ imports = <<>>
  /\ lev \in LevInputs
  /\ sugg = NoSugg
  /\ info = DefaultInfo
  /\ peer = NoPeer

(* The start of a CLI built with any arguments beside any package file.    *)
InitPkg ==
  /\ tree = [p \in {root} |-> NewNode]
  /\ call = NoCall
  /\ outcome = "none"
  /\ nreg = 0
  /\ trav = NoTrav
  /\ beforeMiddleware = <<>>
  /\ afterMiddleware = <<>>
  /\ config = EmptyMap
  /\ pc = "idle"
  /\ run = NoRun
  /\ ctx = NoContext
  /\ events = <<>>
  /\ out = <<>>
  /\ exitCode = NotExited
  /\ nruns = 0
  /\ imports = <<>>
  /\ lev = NoLev
  /\ sugg = NoSugg
  /\ \E given \in CtorInfos, file \in PackageFiles : info = constructor(given, file)
  /\ peer = NoPeer

(* ---------------------------- package info ---------------------------- *)

(* The discovery resumes after its await: every truthy field it loaded     *)
(* replaces the field of the CLI.  It resumes before anything that waits   *)
(* for input or output does.                                               *)
initializePackageInfo ==
  /\ info.pending
  /\ pc \in {"idle", "loadConfig"}
  /\ info' = [info EXCEPT
        !.name = IF info.loaded.name \notin {Undefined, ""} THEN info.loaded.name ELSE @,
        !.version = IF info.loaded.version \notin {Undefined, ""}
                    THEN info.loaded.version ELSE @,
        !.pending = FALSE]
  /\ UNCHANGED <<peer, imports, lev, sugg, regVars, mwVars, runVars>>

(* ------------------------ registration actions ------------------------ *)

registerCommand(path, handler, options) ==
  /\ pc = "idle"
  /\ nreg < MaxRegs
  /\ LET r == RegisterResult(tree, path, handler, NoLazyImport, options)
     IN /\ tree' = r.tree
        /\ outcome' = IF r.threw THEN "threw" ELSE "ok"
  /\ call' = [op |-> "registerCommand", path |-> path, options |-> options]
  /\ nreg' = nreg + 1
  /\ trav' = NoTrav
  /\ sugg' = NoSugg
  /\ UNCHANGED <<info, peer, imports, lev, mwVars, runVars>>

registerLazyCommand(path, modPath, symbol, options) ==
  /\ pc = "idle"
  /\ nreg < MaxRegs
  /\ LET r == RegisterResult(tree, path, Undefined,
                             [path |-> modPath, symbol |-> symbol], options)
     IN /\ tree' = r.tree
        /\ outcome' = IF r.threw THEN "threw" ELSE "ok"
  /\ call' = [op |-> "registerLazyCommand", path |-> path, options |-> options]
  /\ nreg' = nreg + 1
  /\ trav' = NoTrav
  /\ sugg' = NoSugg
  /\ UNCHANGED <<info, peer, imports, lev, mwVars, runVars>>

(* A traversal that creates the nodes it does not find.                    *)
traverseCallCreates(path) ==
  /\ pc = "idle"
  /\ LET r == traverse(tree, path)
     IN trav' = [called |-> TRUE, path |-> path, node |-> r.node,
                 consumed |-> r.consumed]
  /\ tree' = Descend(tree, path, 1)
  /\ UNCHANGED <<info, peer, imports, lev, sugg, call, outcome, nreg, mwVars, runVars>>

(* A direct call of CommandRegistry.traverse; the result is kept in trav.  *)
traverseCall(path) ==
  /\ pc = "idle"
  /\ LET r == traverse(tree, path)
     IN trav' = [called |-> TRUE, path |-> path, node |-> r.node,
                 consumed |-> r.consumed]
  /\ UNCHANGED <<info, peer, imports, lev, sugg, tree, call, outcome, nreg, mwVars, runVars>>

(* A direct call of levenshtein on the strings chosen at the start.        *)
levenshteinCall ==
  /\ ~lev.called
  /\ lev' = [lev EXCEPT !.called = TRUE, !.d = levenshtein(lev.a, lev.b)]
  /\ UNCHANGED <<info, peer, imports, sugg, regVars, mwVars, runVars>>

(* A direct call of suggestFullPath on the registry's root.                *)
suggestCall(targetParts) ==
  /\ pc = "idle"
  /\ sugg' = [called |-> TRUE, parts |-> targetParts,
              result |-> suggestFullPath(tree, CharsOfAll(targetParts))]
  /\ UNCHANGED <<info, peer, imports, lev, regVars, mwVars, runVars>>

beforeEach(fn) ==
  /\ pc = "idle"
  /\ Len(beforeMiddleware) + Len(afterMiddleware) < MaxHooks
  /\ beforeMiddleware' = Append(beforeMiddleware, fn)
  /\ UNCHANGED <<info, peer, imports, lev, sugg, regVars, afterMiddleware, runVars>>

afterEach(fn) ==
  /\ pc = "idle"
  /\ Len(beforeMiddleware) + Len(afterMiddleware) < MaxHooks
  /\ afterMiddleware' = Append(afterMiddleware, fn)
  /\ UNCHANGED <<info, peer, imports, lev, sugg, regVars, beforeMiddleware, runVars>>

(* ----------------------------- CLI.run -------------------------------- *)

Exit(code) == exitCode' = <<code>> /\ pc' = "exited"

(* Step 1: parseArgs and the output mode, up to the await of the config.   *)
RunStart(argv) ==
  /\ pc = "idle"
  /\ nruns < MaxRuns
  /\ LET parsed == parseArgs(argv)
         output == Get(parsed, "output")
     IN run' = [NoRun EXCEPT
                  !.argv = argv,
                  !.parsed = parsed,
                  !.outputMode = IF output.type = "string" /\ output.str \in {"json", "yaml"}
                                 THEN output.str ELSE "text"]
  /\ pc' = "loadConfig"
  /\ nruns' = nruns + 1
  /\ ctx' = NoContext
  /\ events' = <<>>
  /\ out' = <<>>
  /\ UNCHANGED <<info, peer, imports, lev, sugg, regVars, mwVars, config, exitCode>>

(* Step 2: the config file and the environment overrides are merged.       *)
LoadConfig(fileConfig, envOverrides) ==
  /\ pc = "loadConfig"
  /\ ~info.pending
  /\ config' = Spread(fileConfig, envOverrides)
  /\ pc' = "version"
  /\ UNCHANGED <<info, peer, imports, lev, sugg, regVars, mwVars, run, ctx, events, out, exitCode, nruns>>

(* A version step that prints and then goes on to the help step.          *)
VersionCheckGoesOn ==
  /\ pc = "version"
  /\ out' = IF Truthy(run.parsed["version"])
            THEN Append(out, Line("stdout", "version", <<info.name, info.version>>))
            ELSE out
  /\ run' = [run EXCEPT !.verbosity =
               IF Truthy(run.parsed["quiet"]) THEN "quiet"
               ELSE IF Truthy(run.parsed["verbose"]) THEN "verbose"
               ELSE "normal"]
  /\ pc' = "help"
  /\ UNCHANGED <<info, peer, imports, lev, sugg, regVars, mwVars, config, ctx, events, exitCode, nruns>>

(* Steps 3 and 4: --version prints and returns; else the verbosity.        *)
VersionCheck ==
  /\ pc = "version"
  /\ IF Truthy(run.parsed["version"])
     THEN /\ out' = Append(out, Line("stdout", "version", <<info.name, info.version>>))
          /\ run' = [run EXCEPT !.result = "version"]
          /\ pc' = "done"
     ELSE /\ run' = [run EXCEPT !.verbosity =
                       IF Truthy(run.parsed["quiet"]) THEN "quiet"
                       ELSE IF Truthy(run.parsed["verbose"]) THEN "verbose"
                       ELSE "normal"]
          /\ pc' = "help"
          /\ out' = out
  /\ UNCHANGED <<info, peer, imports, lev, sugg, regVars, mwVars, config, ctx, events, exitCode, nruns>>

(* A help step that looks at the help flag only.                           *)
HelpCheckFlagOnly ==
  /\ pc = "help"
  /\ LET positionals == run.parsed["_"].list
     IN IF Truthy(run.parsed["help"])
        THEN /\ out' = out \o printHelp(tree, run.verbosity)
             /\ run' = [run EXCEPT !.positionals = positionals, !.result = "help"]
             /\ pc' = "done"
        ELSE /\ run' = [run EXCEPT !.positionals = positionals]
             /\ pc' = "traverse"
             /\ out' = out
  /\ UNCHANGED <<info, peer, imports, lev, sugg, regVars, mwVars, config, ctx, events, exitCode, nruns>>

(* Step 5: the positionals; --help or no positional prints the help.       *)
HelpCheck ==
  /\ pc = "help"
  /\ LET positionals == run.parsed["_"].list
     IN IF Truthy(run.parsed["help"]) \/ Len(positionals) = 0
        THEN /\ out' = out \o printHelp(tree, run.verbosity)
             /\ run' = [run EXCEPT !.positionals = positionals, !.result = "help"]
             /\ pc' = "done"
        ELSE /\ run' = [run EXCEPT !.positionals = positionals]
             /\ pc' = "traverse"
             /\ out' = out
  /\ UNCHANGED <<info, peer, imports, lev, sugg, regVars, mwVars, config, ctx, events, exitCode, nruns>>

(* Step 6: traversal; a node with neither handler nor lazy import is an    *)
(* unknown command, reported before run returns.                           *)
TraverseStep ==
  /\ pc = "traverse"
  /\ LET r == traverse(tree, run.positionals)
         n == tree[r.node]
     IN IF n.handler = Undefined /\ n.lazyImport = NoLazyImport
        THEN LET unknownCmdName ==
                   JoinChars(CharsOfAll(SubSeq(run.positionals, 1,
                               Min2(r.consumed + 1, Len(run.positionals)))), 1)
             IN /\ out' = out \o unknownCommand(unknownCmdName, tree, run.verbosity)
                /\ run' = [run EXCEPT !.node = r.node, !.consumed = r.consumed,
                                      !.result = "unknown"]
                /\ pc' = "done"
        ELSE /\ run' = [run EXCEPT !.node = r.node, !.consumed = r.consumed]
             /\ pc' = "context"
             /\ out' = out
  /\ UNCHANGED <<info, peer, imports, lev, sugg, regVars, mwVars, config, ctx, events, exitCode, nruns>>

(* Raw flags in which the configuration overrides the command line.       *)
BuildContextConfigWins ==
  /\ pc = "context"
  /\ LET remainingArgs == SubSeq(run.positionals, run.consumed + 1, Len(run.positionals))
         rawFlags == Spread(run.parsed, config)
     IN /\ run' = [run EXCEPT !.remainingArgs = remainingArgs, !.rawFlags = rawFlags,
                              !.mwIdx = 1]
        /\ ctx' = [NoContext EXCEPT !.built = TRUE, !.args = remainingArgs,
                                    !.options = rawFlags,
                                    !.verbosity = run.verbosity,
                                    !.outputMode = run.outputMode]
  /\ pc' = "before"
  /\ UNCHANGED <<info, peer, imports, lev, sugg, regVars, mwVars, config, events, out, exitCode, nruns>>

(* A context that is handed every positional, the command path included.   *)
BuildContextAllPositionals ==
  /\ pc = "context"
  /\ LET remainingArgs == run.positionals
         rawFlags == Spread(config, run.parsed)
     IN /\ run' = [run EXCEPT !.remainingArgs = remainingArgs, !.rawFlags = rawFlags,
                              !.mwIdx = 1]
        /\ ctx' = [NoContext EXCEPT !.built = TRUE, !.args = remainingArgs,
                                    !.options = rawFlags,
                                    !.verbosity = run.verbosity,
                                    !.outputMode = run.outputMode]
  /\ pc' = "before"
  /\ UNCHANGED <<info, peer, imports, lev, sugg, regVars, mwVars, config, events, out, exitCode, nruns>>

(* Step 7 and the head of step 8: remaining args, raw flags, the context.  *)
BuildContext ==
  /\ pc = "context"
  /\ LET remainingArgs == SubSeq(run.positionals, run.consumed + 1, Len(run.positionals))
         rawFlags == Spread(config, run.parsed)
     IN /\ run' = [run EXCEPT !.remainingArgs = remainingArgs, !.rawFlags = rawFlags,
                              !.mwIdx = 1]
        /\ ctx' = [NoContext EXCEPT !.built = TRUE, !.args = remainingArgs,
                                    !.options = rawFlags,
                                    !.verbosity = run.verbosity,
                                    !.outputMode = run.outputMode]
  /\ pc' = "before"
  /\ UNCHANGED <<info, peer, imports, lev, sugg, regVars, mwVars, config, events, out, exitCode, nruns>>

(* The before-hooks taken from the end of the list.                        *)
BeforeStartReversed ==
  /\ pc = "before"
  /\ run.mwIdx <= Len(beforeMiddleware)
  /\ events' = Append(events,
        Ev("beforeStart", beforeMiddleware[Len(beforeMiddleware) + 1 - run.mwIdx]))
  /\ pc' = "inBefore"
  /\ UNCHANGED <<info, peer, imports, lev, sugg, regVars, mwVars, config, run, ctx, out, exitCode, nruns>>

(* Step 8: the next before-hook is called ...                              *)
BeforeStart ==
  /\ pc = "before"
  /\ run.mwIdx <= Len(beforeMiddleware)
  /\ events' = Append(events, Ev("beforeStart", beforeMiddleware[run.mwIdx]))
  /\ pc' = "inBefore"
  /\ UNCHANGED <<info, peer, imports, lev, sugg, regVars, mwVars, config, run, ctx, out, exitCode, nruns>>

(* ... and awaited: it returns and the loop goes on ...                    *)
BeforeReturn ==
  /\ pc = "inBefore"
  /\ events' = Append(events, Ev("beforeEnd", beforeMiddleware[run.mwIdx]))
  /\ run' = [run EXCEPT !.mwIdx = @ + 1]
  /\ pc' = "before"
  /\ UNCHANGED <<info, peer, imports, lev, sugg, regVars, mwVars, config, ctx, out, exitCode, nruns>>

(* A before loop that catches what a hook throws and goes on.               *)
BeforeThrowSwallowed(err) ==
  /\ pc = "inBefore"
  /\ events' = Append(events, Ev("beforeThrow", beforeMiddleware[run.mwIdx]))
  /\ run' = [run EXCEPT !.mwIdx = @ + 1]
  /\ pc' = "before"
  /\ UNCHANGED <<info, peer, imports, lev, sugg, regVars, mwVars, config, ctx, out, exitCode, nruns>>

(* ... or it throws and run() rejects with its error.                      *)
BeforeThrow(err) ==
  /\ pc = "inBefore"
  /\ events' = Append(events, Ev("beforeThrow", beforeMiddleware[run.mwIdx]))
  /\ run' = [run EXCEPT !.result = "rejected", !.error = err]
  /\ pc' = "rejected"
  /\ UNCHANGED <<info, peer, imports, lev, sugg, regVars, mwVars, config, ctx, out, exitCode, nruns>>

(* Step 9: the handler of the node, or the start of its lazy import.       *)
ResolveHandler ==
  /\ pc = "before"
  /\ run.mwIdx > Len(beforeMiddleware)
  /\ LET n == tree[run.node]
     IN IF n.handler # Undefined
        THEN /\ run' = [run EXCEPT !.handler = n.handler, !.options = n.options]
             /\ pc' = "validate"
             /\ events' = events
        ELSE /\ run' = [run EXCEPT !.options = n.options,
                                      !.lazyImport = n.lazyImport]
             /\ pc' = "importing"
             /\ events' = Append(events, Ev("import", n.lazyImport.path))
  /\ UNCHANGED <<info, peer, imports, lev, sugg, regVars, mwVars, config, ctx, out, exitCode, nruns>>

(* An import whose result is used for this run but not kept on the node.   *)
ImportDoneNoCache ==
  /\ pc = "importing"
  /\ LET li       == run.lazyImport
         imported == Modules(li.path)
         handler  == IF li.symbol # "" /\ li.symbol # Undefined
                        /\ imported[li.symbol] # Undefined
                     THEN imported[li.symbol] ELSE imported.default
     IN IF imported.default = ImportFails \/ ~IsFunction(handler)
        THEN /\ run' = [run EXCEPT !.result = "rejected"]
             /\ pc' = "rejected"
             /\ imports' = Append(imports, Imported(run.node, li, Undefined))
        ELSE /\ run' = [run EXCEPT !.handler = handler]
             /\ pc' = "validate"
             /\ imports' = Append(imports, Imported(run.node, li, handler))
  /\ UNCHANGED <<info, peer, lev, sugg, regVars, mwVars, config, ctx, events, out,
                 exitCode, nruns>>

(* An import that sets the handler and leaves the pending import in place. *)
ImportDoneKeepPending ==
  /\ pc = "importing"
  /\ LET li       == run.lazyImport
         imported == Modules(li.path)
         handler  == IF li.symbol # "" /\ li.symbol # Undefined
                        /\ imported[li.symbol] # Undefined
                     THEN imported[li.symbol] ELSE imported.default
     IN IF imported.default = ImportFails \/ ~IsFunction(handler)
        THEN /\ run' = [run EXCEPT !.result = "rejected"]
             /\ pc' = "rejected"
             /\ tree' = tree
             /\ imports' = Append(imports, Imported(run.node, li, Undefined))
        ELSE /\ run' = [run EXCEPT !.handler = handler]
             /\ tree' = [tree EXCEPT ![run.node].handler = handler]
             /\ pc' = "validate"
             /\ imports' = Append(imports, Imported(run.node, li, handler))
  /\ UNCHANGED <<info, peer, lev, sugg, call, outcome, nreg, trav, mwVars, config, ctx, events,
                 out, exitCode, nruns>>

(* The import settles: the export is picked, checked and cached.           *)
ImportDone ==
  /\ pc = "importing"
  /\ LET li       == run.lazyImport
         imported == Modules(li.path)
         handler  == IF li.symbol # "" /\ li.symbol # Undefined
                        /\ imported[li.symbol] # Undefined
                     THEN imported[li.symbol] ELSE imported.default
     IN IF imported.default = ImportFails \/ ~IsFunction(handler)
        THEN /\ run' = [run EXCEPT !.result = "rejected",
                          !.error = [isCLIError |-> FALSE, exitCode |-> 0,
                                     message |-> "load", string |-> "Error: load"]]
             /\ pc' = "rejected"
             /\ tree' = tree
             /\ imports' = Append(imports, Imported(run.node, li, Undefined))
        ELSE /\ run' = [run EXCEPT !.handler = handler]
             /\ tree' = [tree EXCEPT ![run.node].handler = handler,
                                     ![run.node].lazyImport = NoLazyImport]
             /\ pc' = "validate"
             /\ imports' = Append(imports, Imported(run.node, li, handler))
  /\ UNCHANGED <<info, peer, lev, sugg, call, outcome, nreg, trav, mwVars, config, ctx, events, out,
                 exitCode, nruns>>

(* A validation step that reports a failure and goes on with the raw flags. *)
ValidateFlagsNoExit ==
  /\ pc = "validate"
  /\ IF run.options.flagsSchema # Undefined
     THEN LET result == safeParse(run.options.flagsSchema, run.rawFlags)
          IN IF ~result.success
             THEN /\ out' = Append(out, Line("stdout", "error", <<"Invalid flags">>))
                  /\ run' = [run EXCEPT !.result = "invalid",
                                        !.validatedFlags = run.rawFlags]
             ELSE /\ run' = [run EXCEPT !.validatedFlags = result.data]
                  /\ out' = out
     ELSE /\ run' = [run EXCEPT !.validatedFlags = run.rawFlags]
          /\ out' = out
  /\ pc' = "span"
  /\ UNCHANGED <<info, peer, imports, lev, sugg, regVars, mwVars, config, ctx, events, exitCode, nruns>>

(* A validation step that, without a schema, drops the global flags.       *)
ValidateFlagsStripsGlobals ==
  /\ pc = "validate"
  /\ IF run.options.flagsSchema # Undefined
     THEN LET result == safeParse(run.options.flagsSchema, run.rawFlags)
          IN IF ~result.success
             THEN /\ out' = Append(out, Line("stdout", "error", <<"Invalid flags">>))
                  /\ events' = Append(events, [Ev("exit", "Deno.exit") EXCEPT !.code = 1])
                  /\ run' = [run EXCEPT !.result = "invalid"]
                  /\ Exit(1)
             ELSE /\ run' = [run EXCEPT !.validatedFlags = result.data]
                  /\ pc' = "span"
                  /\ UNCHANGED <<out, events, exitCode>>
     ELSE /\ run' = [run EXCEPT !.validatedFlags =
                       [k \in DOMAIN run.rawFlags \ BooleanSet |-> run.rawFlags[k]]]
          /\ pc' = "span"
          /\ UNCHANGED <<out, events, exitCode>>
  /\ UNCHANGED <<info, peer, imports, lev, sugg, regVars, mwVars, config, ctx, nruns>>

(* Step 10: the flags schema, if any, validates the raw flags; a failure   *)
(* is printed and the process exits with 1.                                *)
ValidateFlags ==
  /\ pc = "validate"
  /\ IF run.options.flagsSchema # Undefined
     THEN LET result == safeParse(run.options.flagsSchema, run.rawFlags)
          IN IF ~result.success
             THEN /\ out' = Append(out, Line("stdout", "error", <<"Invalid flags">>))
                  /\ events' = Append(events, [Ev("exit", "Deno.exit") EXCEPT !.code = 1])
                  /\ run' = [run EXCEPT !.result = "invalid"]
                  /\ Exit(1)
             ELSE /\ run' = [run EXCEPT !.validatedFlags = result.data]
                  /\ pc' = "span"
                  /\ UNCHANGED <<out, events, exitCode>>
     ELSE /\ run' = [run EXCEPT !.validatedFlags = run.rawFlags]
          /\ pc' = "span"
          /\ UNCHANGED <<out, events, exitCode>>
  /\ UNCHANGED <<info, peer, imports, lev, sugg, regVars, mwVars, config, ctx, nruns>>

(* Steps 11 and 12: the span is started and the handler is called.         *)
HandlerStart ==
  /\ pc = "span"
  /\ LET spanName == SubSeq(run.positionals, 1, run.consumed)
     IN ctx' = [ctx EXCEPT !.span = "open",
                           !.spanName = IF spanName = <<>> THEN <<"root">> ELSE spanName]
  /\ events' = events \o <<Ev("spanStart", "span"),
                           [Ev("handlerStart", run.handler) EXCEPT
                              !.args = ctx.args, !.flags = run.validatedFlags]>>
  /\ pc' = "inHandler"
  /\ UNCHANGED <<info, peer, imports, lev, sugg, regVars, mwVars, config, run, out, exitCode, nruns>>

(* The handler returns: ctx.ok(), then the finally block ends the span.    *)
HandlerReturn ==
  /\ pc = "inHandler"
  /\ ctx' = [ctx EXCEPT !.status = "ok", !.span = "ended", !.ends = @ + 1]
  /\ events' = events \o <<Ev("handlerEnd", run.handler), Ev("spanOk", "span"),
                           Ev("spanEnd", "span")>>
  /\ run' = [run EXCEPT !.mwIdx = 1]
  /\ pc' = "after"
  /\ UNCHANGED <<info, peer, imports, lev, sugg, regVars, mwVars, config, out, exitCode, nruns>>

(* A catch block that exits with 1 whatever was thrown.                    *)
HandlerThrowExitOne(err) ==
  /\ pc = "inHandler"
  /\ ctx' = [ctx EXCEPT !.status = "error"]
  /\ out' = Append(out, Line("stdout", "error", <<err.string>>))
  /\ events' = events \o <<Ev("handlerThrow", run.handler), Ev("spanFail", "span"),
                           Ev("print", "ctx.error"),
                           [Ev("exit", "Deno.exit") EXCEPT !.code = 1]>>
  /\ Exit(1)
  /\ run' = [run EXCEPT !.result = "failed", !.error = err]
  /\ UNCHANGED <<info, peer, imports, lev, sugg, regVars, mwVars, config, nruns>>

(* A catch block that reports the error without ending the process.        *)
HandlerThrowNoExit(err) ==
  /\ pc = "inHandler"
  /\ ctx' = [ctx EXCEPT !.status = "error", !.span = "ended", !.ends = @ + 1]
  /\ out' = Append(out, Line("stdout", "error",
                     <<IF err.isCLIError THEN err.message ELSE err.string>>))
  /\ events' = events \o <<Ev("handlerThrow", run.handler), Ev("spanFail", "span"),
                           Ev("print", "ctx.error"), Ev("spanEnd", "span")>>
  /\ run' = [run EXCEPT !.result = "failed", !.error = err, !.mwIdx = 1]
  /\ pc' = "after"
  /\ UNCHANGED <<info, peer, imports, lev, sugg, regVars, mwVars, config, exitCode, nruns>>

(* The handler throws: ctx.fail(err), the error is printed and Deno.exit   *)
(* ends the process inside the catch block; the finally block, and with it *)
(* ctx.endSpan(), is never reached.                                        *)
HandlerThrow(err) ==
  /\ pc = "inHandler"
  /\ LET code == IF err.isCLIError THEN err.exitCode ELSE 1
     IN /\ ctx' = [ctx EXCEPT !.status = "error"]
        /\ out' = Append(out, Line("stdout", "error",
                           <<IF err.isCLIError THEN err.message ELSE err.string>>))
        /\ events' = events \o <<Ev("handlerThrow", run.handler), Ev("spanFail", "span"),
                                 Ev("print", "ctx.error"),
                                 [Ev("exit", "Deno.exit") EXCEPT !.code = code]>>
        /\ Exit(code)
  /\ run' = [run EXCEPT !.result = "failed", !.error = err]
  /\ UNCHANGED <<info, peer, imports, lev, sugg, regVars, mwVars, config, nruns>>

(* The running handler calls ctx.onAbort(fn): one more listener on the    *)
(* context's signal.                                                       *)
OnAbort ==
  /\ pc = "inHandler"
  /\ ctx.abortListeners < MaxHooks
  /\ ctx' = [ctx EXCEPT !.abortListeners = @ + 1]
  /\ events' = Append(events, Ev("onAbort", run.handler))
  /\ UNCHANGED <<info, peer, imports, lev, sugg, regVars, mwVars, config, pc, run, out, exitCode, nruns>>

(* The user hits Ctrl-C while the handler runs.  Nothing listens for       *)
(* SIGINT on behalf of the context and nothing calls abort() on its        *)
(* private controller, so the context stays as it is: either the signal's  *)
(* default action ends the process, or a listener of the host's own keeps  *)
(* it running.                                                             *)
Interrupt(hostListens) ==
  /\ pc = "inHandler"
  /\ ~\E i \in 1..Len(events) : events[i].e = "sigint"
  /\ events' = Append(events, Ev("sigint", "SIGINT"))
  /\ IF hostListens
     THEN UNCHANGED <<pc, exitCode>>
     ELSE /\ pc' = "exited"
          /\ exitCode' = <<130>>
  /\ UNCHANGED <<info, peer, imports, lev, sugg, regVars, mwVars, config, run, ctx, out, nruns>>

(* An after loop that calls the handler again once a hook has returned.    *)
AfterReturnRecallsHandler ==
  /\ pc = "inAfter"
  /\ events' = Append(events, Ev("afterEnd", afterMiddleware[run.mwIdx]))
  /\ run' = [run EXCEPT !.mwIdx = @ + 1]
  /\ pc' = "span"
  /\ UNCHANGED <<info, peer, imports, lev, sugg, regVars, mwVars, config, ctx, out, exitCode, nruns>>

(* A ctx.get that finds nothing whatever was stored.                       *)
ContextGetMisses(key) ==
  /\ pc \in {"inBefore", "inHandler", "inAfter"}
  /\ ctx' = [ctx EXCEPT !.got = [key |-> key, at |-> pc, val |-> NoValue]]
  /\ UNCHANGED <<info, peer, imports, lev, sugg, regVars, mwVars, config, pc, run, events,
                 out, exitCode, nruns>>

(* The hook or handler that is running calls ctx.set(key, val); the value  *)
(* tells which run stored it and from where.                               *)
ContextSet(key) ==
  /\ pc \in {"inBefore", "inHandler", "inAfter"}
  /\ ctx' = [ctx EXCEPT !.dataStore =
               Spread(@, [k \in {key} |-> [run |-> nruns, by |-> pc]])]
  /\ UNCHANGED <<info, peer, imports, lev, sugg, regVars, mwVars, config, pc, run, events,
                 out, exitCode, nruns>>

(* The hook or handler that is running calls ctx.get(key); what it got    *)
(* last is kept in ctx.got.                                                *)
ContextGet(key) ==
  /\ pc \in {"inBefore", "inHandler", "inAfter"}
  /\ ctx' = [ctx EXCEPT !.got =
               [key |-> key, at |-> pc,
                val |-> IF key \in DOMAIN ctx.dataStore THEN ctx.dataStore[key]
                        ELSE NoValue]]
  /\ UNCHANGED <<info, peer, imports, lev, sugg, regVars, mwVars, config, pc, run, events,
                 out, exitCode, nruns>>

(* Step 13: the after-hooks, one at a time.                                *)
AfterStart ==
  /\ pc = "after"
  /\ run.mwIdx <= Len(afterMiddleware)
  /\ events' = Append(events, Ev("afterStart", afterMiddleware[run.mwIdx]))
  /\ pc' = "inAfter"
  /\ UNCHANGED <<info, peer, imports, lev, sugg, regVars, mwVars, config, run, ctx, out, exitCode, nruns>>

AfterReturn ==
  /\ pc = "inAfter"
  /\ events' = Append(events, Ev("afterEnd", afterMiddleware[run.mwIdx]))
  /\ run' = [run EXCEPT !.mwIdx = @ + 1]
  /\ pc' = "after"
  /\ UNCHANGED <<info, peer, imports, lev, sugg, regVars, mwVars, config, ctx, out, exitCode, nruns>>

AfterThrow(err) ==
  /\ pc = "inAfter"
  /\ events' = Append(events, Ev("afterThrow", afterMiddleware[run.mwIdx]))
  /\ run' = [run EXCEPT !.result = "rejected", !.error = err]
  /\ pc' = "rejected"
  /\ UNCHANGED <<info, peer, imports, lev, sugg, regVars, mwVars, config, ctx, out, exitCode, nruns>>

(* A return that waits for one hook more than there are.                   *)
RunReturnOffByOne ==
  /\ pc = "after"
  /\ run.mwIdx > Len(afterMiddleware) + 1
  /\ run' = [run EXCEPT !.result = "completed"]
  /\ pc' = "done"
  /\ UNCHANGED <<info, peer, imports, lev, sugg, regVars, mwVars, config, ctx, events, out, exitCode, nruns>>

(* run() resolves after the last after-hook.                               *)
RunReturn ==
  /\ pc = "after"
  /\ run.mwIdx > Len(afterMiddleware)
  /\ run' = [run EXCEPT !.result = "completed"]
  /\ pc' = "done"
  /\ UNCHANGED <<info, peer, imports, lev, sugg, regVars, mwVars, config, ctx, events, out, exitCode, nruns>>

(* ------------------------- a second run() ----------------------------- *)

(* The host calls run() again on the same CLI object while the first call  *)
(* waits at one of its awaits: step 1, up to the await of the config.      *)
PeerRunStart(argv) ==
  /\ peer.pc = "idle"
  /\ pc \in {"loadConfig", "inBefore", "importing", "inHandler", "inAfter"}
  /\ nruns < MaxRuns
  /\ peer' = [NoPeer EXCEPT !.pc = "loadConfig", !.argv = argv]
  /\ nruns' = nruns + 1
  /\ UNCHANGED <<info, imports, lev, sugg, regVars, mwVars, config, pc, run, ctx, events,
                 out, exitCode>>

(* Steps 10 to 12 of the second call, up to the await of its handler: a    *)
(* failed validation ends the process, else the handler is called.         *)
PeerCallHandler(options, rawFlags, handler) ==
  IF options.flagsSchema # Undefined /\ ~safeParse(options.flagsSchema, rawFlags).success
  THEN /\ out' = Append(out, Line("stdout", "error", <<"Invalid flags">>))
       /\ peer' = [peer EXCEPT !.pc = "exited", !.result = "invalid"]
       /\ Exit(1)
  ELSE /\ peer' = [peer EXCEPT !.pc = "inHandler", !.handler = handler]
       /\ UNCHANGED <<out, pc, exitCode>>

(* Steps 2 to 9 of the second call, which run without a break when no      *)
(* before-hook is installed: the config, --version, the help, the          *)
(* traversal, and the handler of the node or the start of its import.      *)
PeerDispatch(fileConfig, envOverrides) ==
  /\ peer.pc = "loadConfig"
  /\ pc # "exited"
  /\ ~info.pending
  /\ beforeMiddleware = <<>>
  /\ config' = Spread(fileConfig, envOverrides)
  /\ LET parsed      == parseArgs(peer.argv)
         verbosity   == IF Truthy(parsed["quiet"]) THEN "quiet"
                        ELSE IF Truthy(parsed["verbose"]) THEN "verbose" ELSE "normal"
         positionals == parsed["_"].list
         r           == traverse(tree, positionals)
         n           == tree[r.node]
         rawFlags    == Spread(config', parsed)
     IN IF Truthy(parsed["version"])
        THEN /\ out' = Append(out, Line("stdout", "version", <<info.name, info.version>>))
             /\ peer' = [peer EXCEPT !.pc = "done", !.result = "version"]
             /\ UNCHANGED <<pc, exitCode>>
        ELSE IF Truthy(parsed["help"]) \/ Len(positionals) = 0
        THEN /\ out' = out \o printHelp(tree, verbosity)
             /\ peer' = [peer EXCEPT !.pc = "done", !.result = "help"]
             /\ UNCHANGED <<pc, exitCode>>
        ELSE IF n.handler = Undefined /\ n.lazyImport = NoLazyImport
        THEN /\ out' = out \o unknownCommand(
                          JoinChars(CharsOfAll(SubSeq(positionals, 1,
                            Min2(r.consumed + 1, Len(positionals)))), 1),
                          tree, verbosity)
             /\ peer' = [peer EXCEPT !.pc = "done", !.node = r.node, !.result = "unknown"]
             /\ UNCHANGED <<pc, exitCode>>
        ELSE IF n.handler # Undefined
        THEN PeerCallHandler(n.options, rawFlags, n.handler)
        ELSE /\ peer' = [peer EXCEPT !.pc = "importing", !.node = r.node,
                                     !.lazyImport = n.lazyImport]
             /\ UNCHANGED <<out, pc, exitCode>>
  /\ UNCHANGED <<info, imports, lev, sugg, regVars, mwVars, run, ctx, events, nruns>>

(* The import of the second call settles: the export is picked, checked    *)
(* and cached on the node, whatever the node holds by now.                 *)
PeerImportDone ==
  /\ peer.pc = "importing"
  /\ pc # "exited"
  /\ LET li       == peer.lazyImport
         imported == Modules(li.path)
         handler  == IF li.symbol # "" /\ li.symbol # Undefined
                        /\ imported[li.symbol] # Undefined
                     THEN imported[li.symbol] ELSE imported.default
         options  == tree[peer.node].options
         rawFlags == Spread(config, parseArgs(peer.argv))
     IN IF imported.default = ImportFails \/ ~IsFunction(handler)
        THEN /\ peer' = [peer EXCEPT !.pc = "rejected", !.result = "rejected"]
             /\ tree' = tree
             /\ imports' = Append(imports, Imported(peer.node, li, Undefined))
             /\ UNCHANGED <<out, pc, exitCode>>
        ELSE /\ tree' = [tree EXCEPT ![peer.node].handler = handler,
                                     ![peer.node].lazyImport = NoLazyImport]
             /\ imports' = Append(imports, Imported(peer.node, li, handler))
             /\ PeerCallHandler(options, rawFlags, handler)
  /\ UNCHANGED <<info, lev, sugg, call, outcome, nreg, trav, mwVars, config, run, ctx,
                 events, nruns>>

(* The handler of the second call returns; with no after-hook installed    *)
(* the call resolves.                                                      *)
PeerHandlerReturn ==
  /\ peer.pc = "inHandler"
  /\ pc # "exited"
  /\ afterMiddleware = <<>>
  /\ peer' = [peer EXCEPT !.pc = "done", !.result = "completed"]
  /\ UNCHANGED <<info, imports, lev, sugg, regVars, mwVars, runVars>>

(* The handler of the second call throws: the error is printed and         *)
(* Deno.exit ends the process, the first call with it.                     *)
PeerHandlerThrow(err) ==
  /\ peer.pc = "inHandler"
  /\ pc # "exited"
  /\ out' = Append(out, Line("stdout", "error",
                     <<IF err.isCLIError THEN err.message ELSE err.string>>))
  /\ peer' = [peer EXCEPT !.pc = "exited", !.result = "failed"]
  /\ Exit(IF err.isCLIError THEN err.exitCode ELSE 1)
  /\ UNCHANGED <<info, imports, lev, sugg, regVars, mwVars, config, run, ctx, events, nruns>>

(* ------------------------------ the host ------------------------------ *)

(* main() has nothing left after `await cli.run(Deno.args)`: the process   *)
(* ends with code 0, or, when run() rejected and nothing caught it, the    *)
(* runtime reports the uncaught error and the process ends with code 1.    *)
HostExit ==
  /\ pc \in {"done", "rejected"}
  /\ exitCode' = IF pc = "done" THEN <<0>> ELSE <<1>>
  /\ out' = IF pc = "done" THEN out
            ELSE Append(out, Line("stderr", "uncaught", <<run.error.string>>))
  /\ pc' = "exited"
  /\ UNCHANGED <<info, peer, imports, lev, sugg, regVars, mwVars, config, run, ctx, events, nruns>>

(* A host that keeps the CLI object goes on, to register or to run again.  *)
HostContinue ==
  /\ pc \in {"done", "rejected"}
  /\ pc' = "idle"
  /\ run' = NoRun
  /\ ctx' = NoContext
  /\ events' = <<>>
  /\ out' = <<>>
  /\ UNCHANGED <<info, peer, imports, lev, sugg, regVars, mwVars, config, exitCode, nruns>>

(* --------------------------- specifications --------------------------- *)

NextReg ==
  \/ \E p \in RegPaths, h \in Handlers, o \in OptionSets :
        registerCommand(p, h, o)
  \/ \E p \in RegPaths, l \in LazyImports, o \in OptionSets :
        registerLazyCommand(p, l.path, l.symbol, o)
  \/ \E p \in TravPaths : traverseCall(p)

Next ==
  \/ \E c \in SetupCommands : registerCommand(c.path, c.handler, c.options)
  \/ \E c \in SetupLazyCommands :
        registerLazyCommand(c.path, c.modPath, c.symbol, c.options)
  \/ beforeEach(HookName(Len(beforeMiddleware) + Len(afterMiddleware) + 1))
  \/ afterEach(HookName(Len(beforeMiddleware) + Len(afterMiddleware) + 1))
  \/ \E argv \in Argvs : RunStart(argv)
  \/ \E c \in Configs : LoadConfig(c.file, c.env)
  \/ VersionCheck
  \/ HelpCheck
  \/ TraverseStep
  \/ BuildContext
  \/ BeforeStart
  \/ BeforeReturn
  \/ \E err \in Errors : BeforeThrow(err)
  \/ ResolveHandler
  \/ ImportDone
  \/ ValidateFlags
  \/ HandlerStart
  \/ HandlerReturn
  \/ \E err \in Errors : HandlerThrow(err)
  \/ AfterStart
  \/ AfterReturn
  \/ \E err \in Errors : AfterThrow(err)
  \/ RunReturn
  \/ HostExit
  \/ HostContinue

NextArgs ==
  \/ \E c \in SetupCommands : registerCommand(c.path, c.handler, c.options)
  \/ \E c \in SetupLazyCommands :
        registerLazyCommand(c.path, c.modPath, c.symbol, c.options)
  \/ \E argv \in Argvs : RunStart(argv)
  \/ \E c \in Configs : LoadConfig(c.file, c.env)
  \/ VersionCheck
  \/ HelpCheck
  \/ TraverseStep
  \/ BuildContext
  \/ ResolveHandler
  \/ ImportDone
  \/ ValidateFlags
  \/ HandlerStart
  \/ HandlerReturn
  \/ \E err \in Errors : HandlerThrow(err)
  \/ RunReturn
  \/ HostExit
  \/ HostContinue

NextLazy ==
  \/ \E c \in LazySetupCommands : registerCommand(c.path, c.handler, c.options)
  \/ \E c \in LazySetupLazyCommands :
        registerLazyCommand(c.path, c.modPath, c.symbol, c.options)
  \/ \E argv \in LazyArgvs : RunStart(argv)
  \/ LoadConfig(EmptyMap, EmptyMap)
  \/ VersionCheck
  \/ HelpCheck
  \/ TraverseStep
  \/ BuildContext
  \/ ResolveHandler
  \/ ImportDone
  \/ ValidateFlags
  \/ HandlerStart
  \/ HandlerReturn
  \/ \E err \in Errors : HandlerThrow(err)
  \/ RunReturn
  \/ HostExit
  \/ HostContinue

NextAlias ==
  \/ \E c \in AliasSetupCommands : registerCommand(c.path, c.handler, c.options)
  \/ \E argv \in AliasArgvs : RunStart(argv)
  \/ LoadConfig(EmptyMap, EmptyMap)
  \/ VersionCheck
  \/ HelpCheck
  \/ TraverseStep
  \/ BuildContext
  \/ ResolveHandler
  \/ ValidateFlags
  \/ HandlerStart
  \/ HandlerReturn
  \/ \E err \in Errors : HandlerThrow(err)
  \/ RunReturn
  \/ HostExit
  \/ HostContinue

NextSignal ==
  \/ \E c \in SetupCommands : registerCommand(c.path, c.handler, c.options)
  \/ \E argv \in SignalArgvs : RunStart(argv)
  \/ LoadConfig(EmptyMap, EmptyMap)
  \/ VersionCheck
  \/ HelpCheck
  \/ TraverseStep
  \/ BuildContext
  \/ ResolveHandler
  \/ ValidateFlags
  \/ HandlerStart
  \/ OnAbort
  \/ \E hostListens \in BOOLEAN : Interrupt(hostListens)
  \/ HandlerReturn
  \/ \E err \in Errors : HandlerThrow(err)
  \/ RunReturn
  \/ HostExit
  \/ HostContinue

NextPipe ==
  \/ \E c \in PipeSetupCommands : registerCommand(c.path, c.handler, c.options)
  \/ \E c \in SetupLazyCommands :
        registerLazyCommand(c.path, c.modPath, c.symbol, c.options)
  \/ beforeEach(HookName(Len(beforeMiddleware) + Len(afterMiddleware) + 1))
  \/ afterEach(HookName(Len(beforeMiddleware) + Len(afterMiddleware) + 1))
  \/ \E argv \in PipeArgvs : RunStart(argv)
  \/ \E c \in PipeConfigs : LoadConfig(c.file, c.env)
  \/ VersionCheck
  \/ HelpCheck
  \/ TraverseStep
  \/ BuildContext
  \/ BeforeStart
  \/ BeforeReturn
  \/ \E err \in Errors : BeforeThrow(err)
  \/ ResolveHandler
  \/ ImportDone
  \/ ValidateFlags
  \/ HandlerStart
  \/ HandlerReturn
  \/ \E err \in Errors : HandlerThrow(err)
  \/ AfterStart
  \/ AfterReturn
  \/ \E err \in Errors : AfterThrow(err)
  \/ RunReturn
  \/ HostExit
  \/ HostContinue

NextConc ==
  \/ \E c \in PipeSetupCommands : registerCommand(c.path, c.handler, c.options)
  \/ \E c \in SetupLazyCommands :
        registerLazyCommand(c.path, c.modPath, c.symbol, c.options)
  \/ \E argv \in ConcArgvs : RunStart(argv)
  \/ LoadConfig(EmptyMap, EmptyMap)
  \/ VersionCheck
  \/ HelpCheck
  \/ TraverseStep
  \/ BuildContext
  \/ ResolveHandler
  \/ ImportDone
  \/ ValidateFlags
  \/ HandlerStart
  \/ HandlerReturn
  \/ \E err \in Errors : HandlerThrow(err)
  \/ RunReturn
  \/ \E argv \in ConcArgvs : PeerRunStart(argv)
  \/ PeerDispatch(EmptyMap, EmptyMap)
  \/ PeerImportDone
  \/ PeerHandlerReturn
  \/ \E err \in Errors : PeerHandlerThrow(err)

NextStore ==
  \/ \E c \in PipeSetupCommands : registerCommand(c.path, c.handler, c.options)
  \/ beforeEach(HookName(Len(beforeMiddleware) + Len(afterMiddleware) + 1))
  \/ afterEach(HookName(Len(beforeMiddleware) + Len(afterMiddleware) + 1))
  \/ \E argv \in StoreArgvs : RunStart(argv)
  \/ LoadConfig(EmptyMap, EmptyMap)
  \/ VersionCheck
  \/ HelpCheck
  \/ TraverseStep
  \/ BuildContext
  \/ BeforeStart
  \/ BeforeReturn
  \/ ResolveHandler
  \/ ValidateFlags
  \/ HandlerStart
  \/ \E key \in StoreKeys : ContextSet(key)
  \/ \E key \in StoreKeys : ContextGet(key)
  \/ HandlerReturn
  \/ AfterStart
  \/ AfterReturn
  \/ RunReturn
  \/ HostExit
  \/ HostContinue

NextRead ==
  \/ \E c \in SetupCommands : registerCommand(c.path, c.handler, c.options)
  \/ \E c \in SetupLazyCommands :
        registerLazyCommand(c.path, c.modPath, c.symbol, c.options)
  \/ \E p \in ReadPaths : traverseCall(p)
  \/ \E parts \in ReadParts : suggestCall(parts)
  \/ \E argv \in ReadArgvs : RunStart(argv)
  \/ LoadConfig(EmptyMap, EmptyMap)
  \/ VersionCheck
  \/ HelpCheck
  \/ TraverseStep
  \/ HostExit
  \/ HostContinue

NextShare ==
  \/ \E c \in PipeSetupCommands : registerCommand(c.path, c.handler, c.options)
  \/ \E c \in ShareSetupLazyCommands :
        registerLazyCommand(c.path, c.modPath, c.symbol, c.options)
  \/ \E argv \in ShareArgvs : RunStart(argv)
  \/ LoadConfig(EmptyMap, EmptyMap)
  \/ VersionCheck
  \/ HelpCheck
  \/ TraverseStep
  \/ BuildContext
  \/ ResolveHandler
  \/ ImportDone
  \/ ValidateFlags
  \/ HandlerStart
  \/ HandlerReturn
  \/ \E err \in Errors : HandlerThrow(err)
  \/ RunReturn
  \/ HostExit
  \/ HostContinue

(* A step of run() itself, from one await, return or exit to the next:     *)
(* every step but the traversal.                                           *)
RunStep ==
  \/ LoadConfig(EmptyMap, EmptyMap)
  \/ VersionCheck
  \/ HelpCheck
  \/ BuildContext
  \/ BeforeStart
  \/ BeforeReturn
  \/ \E err \in Errors : BeforeThrow(err)
  \/ ResolveHandler
  \/ ImportDone
  \/ ValidateFlags
  \/ HandlerStart
  \/ HandlerReturn
  \/ \E err \in Errors : HandlerThrow(err)
  \/ AfterStart
  \/ AfterReturn
  \/ \E err \in Errors : AfterThrow(err)
  \/ RunReturn

NextLive ==
  \/ \E c \in PipeSetupCommands : registerCommand(c.path, c.handler, c.options)
  \/ \E c \in SetupLazyCommands :
        registerLazyCommand(c.path, c.modPath, c.symbol, c.options)
  \/ beforeEach(HookName(Len(beforeMiddleware) + Len(afterMiddleware) + 1))
  \/ afterEach(HookName(Len(beforeMiddleware) + Len(afterMiddleware) + 1))
  \/ \E argv \in LiveArgvs : RunStart(argv)
  \/ RunStep
  \/ TraverseStep
  \/ HostExit

NextPkg ==
  \/ initializePackageInfo
  \/ \E argv \in PkgArgvs : RunStart(argv)
  \/ LoadConfig(EmptyMap, EmptyMap)
  \/ VersionCheck
  \/ HelpCheck
  \/ HostExit
  \/ HostContinue

NextLev == levenshteinCall

NextSuggest ==
  \/ \E c \in SuggestSetupCommands : registerCommand(c.path, c.handler, c.options)
  \/ \E c \in SuggestSetupLazyCommands :
        registerLazyCommand(c.path, c.modPath, c.symbol, c.options)
  \/ \E parts \in TypedParts : suggestCall(parts)

SpecReg == Init /\ [][NextReg]_vars

Spec == Init /\ [][Next]_vars

(* The dispatch specification without hooks.                               *)
SpecArgs == Init /\ [][NextArgs]_vars

SpecLazy == Init /\ [][NextLazy]_vars

SpecLev == InitLev /\ [][NextLev]_vars

SpecSuggest == Init /\ [][NextSuggest]_vars

SpecAlias == Init /\ [][NextAlias]_vars

SpecSignal == Init /\ [][NextSignal]_vars

SpecPipe == Init /\ [][NextPipe]_vars

SpecConc == Init /\ [][NextConc]_vars

SpecStore == Init /\ [][NextStore]_vars

SpecRead == Init /\ [][NextRead]_vars

SpecShare == Init /\ [][NextShare]_vars

(* Weak fairness of the traversal step, its enabling condition written     *)
(* out: the step can be taken exactly when run() stands at the traversal.  *)
TraverseFair == []<>(pc # "traverse") \/ []<><<TraverseStep>>_vars

(* The config load, the import, every hook and the handler settle, and     *)
(* run() goes on whenever it can: a step of a run in flight is taken.      *)
SpecLive == Init /\ [][NextLive]_vars /\ WF_vars(RunStep) /\ TraverseFair

SpecPkg == InitPkg /\ [][NextPkg]_vars

(* ------------------------- registry properties ------------------------ *)

IsRegistration == nreg' = nreg + 1

ParentOf(p) == Prefix(p, Len(p) - 1)

(* Structural sanity of the representation: children lists and the domain  *)
(* agree, and the domain is closed under prefixes.                         *)
TreeShape ==
  /\ Has(tree, root)
  /\ \A p \in DOMAIN tree :
        /\ p = root \/ (Has(tree, ParentOf(p)) /\ p[Len(p)] \in Range(tree[ParentOf(p)].children))
        /\ \A s \in Range(tree[p].children) : Has(tree, Append(p, s))
        /\ \A i, j \in 1..Len(tree[p].children) :
              tree[p].children[i] = tree[p].children[j] => i = j

(* C1: a registration whose terminal node already has a handler or a       *)
(* pending lazy import throws and leaves the whole tree as it was.         *)
C1_DuplicateRejected ==
  [][(IsRegistration /\ Has(tree, call'.path) /\ IsRegistered(tree[call'.path]))
       => (outcome' = "threw" /\ tree' = tree)]_vars

C1_Witness ==
  /\ nreg = 3 /\ outcome = "threw" /\ call.path = <<"user", "add">>
  /\ Has(tree, <<"user", "add">>) /\ Has(tree, <<"user", "g">>)
  /\ tree[<<"user", "add">>].lazyImport # NoLazyImport

(* C2 as claimed: on a fresh registry, registering two different non-empty *)
(* paths succeeds both times, whatever the methods and the order.          *)
C2_Original ==
  [][(nreg = 1 /\ outcome = "ok" /\ IsRegistration
        /\ Len(call'.path) > 0 /\ call'.path # call.path)
       => outcome' = "ok"]_vars

AliasOfFirst(p1, aliases, p2) ==
  ParentOf(p2) = ParentOf(p1) /\ p2[Len(p2)] \in Range(aliases)

(* C2 amended: the second registration succeeds provided the first one did *)
(* not declare the second path's last segment as an alias under the same   *)
(* parent.                                                                 *)
C2_DistinctPathsRegister ==
  [][(nreg = 1 /\ outcome = "ok" /\ IsRegistration
        /\ Len(call'.path) > 0 /\ call'.path # call.path
        /\ ~AliasOfFirst(call.path, call.options.aliases, call'.path))
       => outcome' = "ok"]_vars

C2_Witness ==
  /\ nreg = 2 /\ outcome = "ok" /\ call.path = <<"user">>
  /\ Has(tree, <<"user">>) /\ Has(tree, <<"user", "add">>)
  /\ IsRegistered(tree[<<"user">>]) /\ IsRegistered(tree[<<"user", "add">>])
  /\ tree[<<"user">>].children = <<"add">>

(* C3: a registration with an empty path throws and changes nothing.       *)
C3_EmptyPathRejected ==
  [][(IsRegistration /\ call'.path = <<>>)
       => (outcome' = "threw" /\ tree' = tree)]_vars

C3_Witness ==
  /\ nreg = 3 /\ call.op = "registerLazyCommand" /\ call.path = <<>>
  /\ outcome = "threw" /\ Cardinality(DOMAIN tree) >= 3

(* C4: traverse returns the node at the longest prefix of the segments     *)
(* that exists in the tree, and consumed is that prefix's length.          *)
C4_TraverseLongestPrefix ==
  trav.called =>
    /\ trav.consumed \in 0..Len(trav.path)
    /\ trav.node = Prefix(trav.path, trav.consumed)
    /\ \A i \in 0..trav.consumed : Has(tree, Prefix(trav.path, i))
    /\ trav.consumed < Len(trav.path)
         => ~Has(tree, Prefix(trav.path, trav.consumed + 1))
    /\ (trav.path = <<>> \/ ~Has(tree, Prefix(trav.path, 1)))
         => (trav.node = root /\ trav.consumed = 0)

C4_Witness ==
  /\ trav.called /\ trav.path = <<"user", "x", "add">> /\ trav.consumed = 1
  /\ ~IsRegistered(tree[trav.node])
  /\ Has(tree, <<"user", "add">>)

(* ------------------------- dispatch properties ------------------------ *)

CountE(e, n) == Cardinality({i \in 1..n : events[i].e = e})

IndexOf(e) == CHOOSE i \in 1..Len(events) : events[i].e = e

Happened(e) == \E i \in 1..Len(events) : events[i].e = e

GreetArgv == <<Pos("greet")>>

GreetAliceArgv == <<Pos("greet"), NameAlice>>

(* C5: with greet registered under the schema `name: string, default      *)
(* "World"`, argv ["greet", "--name=Alice"] calls the handler with         *)
(* flags.name = "Alice" and argv ["greet"] with flags.name = "World".      *)
C5_FlagAfterCommandDelivered ==
  \A i \in 1..Len(events) :
    (events[i].e = "handlerStart" /\ run.options.flagsSchema = "greetFlagsSchema"
       /\ config = EmptyMap)
      => /\ run.argv = GreetAliceArgv => events[i].flags["name"] = Str("Alice")
         /\ run.argv = GreetArgv => events[i].flags["name"] = Str("World")

(* C6: an unknown command whose whole typed path is within normalized      *)
(* distance 0.3 of a registered path gets that path printed as the         *)
(* suggestion.                                                             *)
C6_FullPathSuggested ==
  (run.result = "unknown" /\ run.verbosity # "quiet")
    => LET closest == suggestFullPath(tree, CharsOfAll(run.positionals))
       IN closest # NoSuggestion
            => \E i \in 1..Len(out) :
                 out[i].kind = "suggestion" /\ out[i].text = closest

(* C7: an unknown command never throws, runs no hook and no handler, and   *)
(* the process ends with exit code 1.                                      *)
C7_UnknownExitsOne ==
  run.result = "unknown"
    => /\ events = <<>>
       /\ ~ctx.built
       /\ exitCode # NotExited => exitCode = <<1>>

(* C8: when the handler throws, the span is marked failed and then the     *)
(* process exits, with the exit code and message of a CLIError, or with 1  *)
(* and the stringified error for anything else.                            *)
C8_HandlerFailureExit ==
  run.result = "failed"
    => /\ pc = "exited"
       /\ ctx.status = "error"
       /\ Happened("spanFail") /\ Happened("exit")
       /\ IndexOf("handlerThrow") < IndexOf("spanFail")
       /\ IndexOf("spanFail") < IndexOf("exit")
       /\ exitCode = <<IF run.error.isCLIError THEN run.error.exitCode ELSE 1>>
       /\ <<events[IndexOf("exit")].code>> = exitCode
       /\ out # <<>>
       /\ out[Len(out)].kind = "error"
       /\ out[Len(out)].text =
            <<IF run.error.isCLIError THEN run.error.message ELSE run.error.string>>

C8_Witness ==
  /\ run.result = "failed" /\ run.error.isCLIError /\ exitCode = <<2>>
  /\ Len(beforeMiddleware) > 0

(* C9: a span that was started has been ended exactly once when the run or *)
(* the process is over, however the handler ended.                         *)
C9_SpanEndedOnce ==
  (ctx.span # "null" /\ pc \in {"done", "rejected", "exited"}) => ctx.ends = 1

(* C10: the before-hooks run in registration order, each one after the one *)
(* before it has returned, all of them before the handler is called and    *)
(* none after.                                                             *)
C10_BeforeHooksInOrder ==
  \A i \in 1..Len(events) :
    /\ events[i].e = "beforeStart"
         => LET k == CountE("beforeStart", i)
            IN /\ k <= Len(beforeMiddleware)
               /\ events[i].name = beforeMiddleware[k]
               /\ CountE("beforeEnd", i) = k - 1
               /\ CountE("handlerStart", i) = 0
    /\ events[i].e = "handlerStart"
         => /\ CountE("beforeEnd", i) = Len(beforeMiddleware)
            /\ CountE("beforeStart", i) = Len(beforeMiddleware)

C10_Witness ==
  /\ pc = "inHandler"
  /\ Len(beforeMiddleware) = 2 /\ beforeMiddleware[1] # beforeMiddleware[2]
  /\ CountE("beforeEnd", Len(events)) = 2

(* C11: the after-hooks run in registration order, each one after the one  *)
(* before it has returned, and only after the handler has returned and the *)
(* span has been ended; a run whose handler threw runs no after-hook.      *)
C11_AfterHooksOnlyOnSuccess ==
  /\ \A i \in 1..Len(events) :
       events[i].e = "afterStart"
         => LET k == CountE("afterStart", i)
            IN /\ k <= Len(afterMiddleware)
               /\ events[i].name = afterMiddleware[k]
               /\ CountE("afterEnd", i) = k - 1
               /\ CountE("handlerEnd", i) = 1
               /\ CountE("spanEnd", i) = 1
               /\ CountE("handlerThrow", i) = 0
               /\ ctx.span = "ended" /\ ctx.status = "ok"
  /\ (Happened("handlerThrow") \/ run.result = "failed") => ~Happened("afterStart")
  /\ run.result = "completed"
       => CountE("afterEnd", Len(events)) = Len(afterMiddleware)

C11_Witness ==
  /\ pc = "done" /\ run.result = "completed"
  /\ Len(afterMiddleware) = 2 /\ afterMiddleware[1] # afterMiddleware[2]
  /\ CountE("afterEnd", Len(events)) = 2

(* C12: once a before-hook has thrown, the run is over: no later           *)
(* before-hook starts, nothing is imported, the handler is not called and  *)
(* no after-hook runs.                                                     *)
C12_BeforeHookFailureAborts ==
  Happened("beforeThrow")
    => /\ events[Len(events)].e = "beforeThrow"
       /\ CountE("beforeThrow", Len(events)) = 1
       /\ CountE("beforeStart", Len(events)) = run.mwIdx
       /\ ~Happened("import") /\ ~Happened("spanStart")
       /\ ~Happened("handlerStart") /\ ~Happened("afterStart")
       /\ run.result = "rejected" /\ run.handler = Undefined
       /\ pc \in {"rejected", "exited"}
       /\ ctx.span = "null"

C12_Witness ==
  /\ Happened("beforeThrow") /\ run.mwIdx = 1 /\ Len(beforeMiddleware) = 2
  /\ run.node = <<"user">> /\ tree[<<"user">>].lazyImport # NoLazyImport

(* C15: when the command has a flags schema and the raw flags fail it, the *)
(* process exits with 1 before any span, handler or after-hook; when they  *)
(* pass, the handler is called with the schema's output as its flags.      *)
C15_ValidationGuardsHandler ==
  /\ run.result = "invalid"
       => /\ pc = "exited" /\ exitCode = <<1>>
          /\ run.options.flagsSchema # Undefined
          /\ ~safeParse(run.options.flagsSchema, run.rawFlags).success
          /\ ~Happened("spanStart") /\ ~Happened("handlerStart")
          /\ ~Happened("afterStart")
          /\ ctx.span = "null"
  /\ \A i \in 1..Len(events) :
       (events[i].e = "handlerStart" /\ run.options.flagsSchema # Undefined)
         => LET result == safeParse(run.options.flagsSchema, run.rawFlags)
            IN result.success /\ events[i].flags = result.data

C15_Witness ==
  /\ run.result = "invalid" /\ exitCode = <<1>>
  /\ run.rawFlags["name"].type = "number"
  /\ Len(afterMiddleware) > 0

(* C13: a lazy command is imported during its first dispatch only: once an *)
(* import for the node has yielded a handler, the node holds that handler  *)
(* and no pending import, no later dispatch of the node imports again, and *)
(* a later dispatch calls that same handler.                               *)
C13_LazyImportMemoized ==
  /\ \A i, j \in 1..Len(imports) :
       (i < j /\ imports[i].node = imports[j].node)
         => imports[i].handler = Undefined
  /\ \A i \in 1..Len(imports) :
       imports[i].handler # Undefined
         => /\ Has(tree, imports[i].node)
            /\ tree[imports[i].node].handler = imports[i].handler
            /\ tree[imports[i].node].lazyImport = NoLazyImport
            /\ (pc = "importing" => run.node # imports[i].node)
            /\ run.node = imports[i].node
                 => \A k \in 1..Len(events) :
                      events[k].e = "handlerStart"
                        => events[k].name = imports[i].handler

C13_Witness ==
  /\ nruns = 2 /\ pc = "inHandler" /\ run.node = <<"user">>
  /\ Len(imports) = 1 /\ imports[1].node = <<"user">>
  /\ imports[1].handler = "m1.run" /\ run.handler = "m1.run"
  /\ ~Happened("import")

(* ----------------------- lazy loading properties ---------------------- *)

NamedExport(e) == Modules(e.path)[e.symbol]

(* C14: when the imported module has no callable under the export name     *)
(* given at registration, the import ends in a load error: the run is      *)
(* rejected, the handler is not called, and the node keeps its pending     *)
(* import and gets no handler.                                             *)
C14_MissingExportFails ==
  \A i \in 1..Len(imports) :
    ~IsFunction(NamedExport(imports[i]))
      => /\ imports[i].handler = Undefined
         /\ (i = Len(imports) /\ Happened("import"))
              => /\ run.result = "rejected"
                 /\ ~Happened("handlerStart")
                 /\ tree[imports[i].node].handler = Undefined
                 /\ tree[imports[i].node].lazyImport # NoLazyImport

NoBoth(t) ==
  \A p \in DOMAIN t : ~(t[p].handler # Undefined /\ t[p].lazyImport # NoLazyImport)

ExactlyOne(n) == (n.handler # Undefined) # (n.lazyImport # NoLazyImport)

AliasPaths(path, aliases) ==
  {Append(ParentOf(path), aliases[i]) : i \in 1..Len(aliases)}

(* C19: no step leaves a node with both a handler and a pending import; a  *)
(* successful registration leaves the node of its path and each of its     *)
(* alias nodes with exactly one of the two and every other node it created *)
(* with neither; a resolved import leaves the node with the handler only.  *)
C19_HandlerXorPendingImport ==
  [][/\ NoBoth(tree')
     /\ (IsRegistration /\ outcome' = "ok")
          => /\ ExactlyOne(tree'[call'.path])
             /\ \A q \in AliasPaths(call'.path, call'.options.aliases) :
                  ExactlyOne(tree'[q])
             /\ \A q \in (DOMAIN tree') \ (DOMAIN tree) :
                  q \notin {call'.path} \cup AliasPaths(call'.path, call'.options.aliases)
                    => ~IsRegistered(tree'[q])
     /\ (pc = "importing" /\ pc' = "validate")
          => /\ tree'[run.node].handler # Undefined
             /\ tree'[run.node].lazyImport = NoLazyImport]_vars

C19_Witness ==
  /\ Has(tree, <<"user">>) /\ Has(tree, <<"user", "add">>) /\ Has(tree, <<"g">>)
  /\ ~IsRegistered(tree[<<"user">>]) /\ IsRegistered(tree[<<"user", "add">>])
  /\ tree[<<"g">>].lazyImport # NoLazyImport
  /\ Len(imports) > 0

(* C20: the root node exists and has neither a handler nor a pending       *)
(* import, whatever has been registered and dispatched.                    *)
C20_RootNeverRegistered ==
  /\ Has(tree, root)
  /\ tree[root].handler = Undefined
  /\ tree[root].lazyImport = NoLazyImport

C20_Witness ==
  /\ call.path = <<>> /\ outcome = "threw" /\ nreg = 3
  /\ Has(tree, <<"g">>) /\ tree[<<"g">>].options.hidden
  /\ Len(imports) > 0

(* ------------------------ suggestion properties ----------------------- *)

RECURSIVE EditDistance(_, _)
(* The edit distance by its defining recurrence: insert, delete or         *)
(* substitute one character at unit cost.                                  *)
EditDistance(a, b) ==
  IF a = <<>> THEN Len(b)
  ELSE IF b = <<>> THEN Len(a)
  ELSE Min2(Min2(EditDistance(Tail(a), b) + 1, EditDistance(a, Tail(b)) + 1),
            EditDistance(Tail(a), Tail(b)) + (IF Head(a) = Head(b) THEN 0 ELSE 1))

(* C16: levenshtein(a, b) is the unit-cost insertion / deletion /          *)
(* substitution edit distance of a and b, whichever of the two is longer.  *)
C16_LevenshteinIsEditDistance ==
  lev.called => lev.d = EditDistance(lev.a, lev.b)

C16_Witness ==
  /\ lev.called /\ lev.a = <<"a", "b", "A">> /\ lev.b = <<"A", "b">> /\ lev.d = 2

(* C17: levenshtein(a, a) = 0, levenshtein(a, b) = levenshtein(b, a), and  *)
(* levenshtein("", b) is the length of b.                                  *)
C17_LevenshteinLaws ==
  lev.called
    => /\ lev.a = lev.b => lev.d = 0
       /\ lev.d = levenshtein(lev.b, lev.a)
       /\ lev.a = <<>> => lev.d = Len(lev.b)
       /\ levenshtein(lev.a, lev.a) = 0

C17_Witness ==
  /\ lev.called /\ lev.a = <<>> /\ lev.b = <<"b", "A", "b">> /\ lev.d = 3

RegisteredPaths == {p \in DOMAIN tree : p # root /\ IsRegistered(tree[p])}

(* C18: suggestFullPath looks at every path that ends at a node with a     *)
(* handler or a pending import, hidden alias nodes included, and returns   *)
(* the first of them in enumeration order whose normalized distance to the *)
(* typed path is the minimum, if that minimum is below 0.3; else nothing.  *)
C18_SuggestFirstClosest ==
  sugg.called
    => LET all     == dfsPaths(tree, root, 1)
           want    == JoinChars(CharsOfAll(sugg.parts), 1)
           cand(i) == JoinChars(CharsOfAll(all[i]), 1)
           D(i)    == levenshtein(want, cand(i))
           M(i)    == Max2(Len(want), Len(cand(i)))
           IsMin(i) == \A j \in 1..Len(all) : D(i) * M(j) <= D(j) * M(i)
       IN /\ Range(all) = RegisteredPaths
          /\ Len(all) = Cardinality(RegisteredPaths)
          /\ IF \E i \in 1..Len(all) : 10 * D(i) < 3 * M(i)
             THEN \E i \in 1..Len(all) :
                    /\ IsMin(i)
                    /\ \A j \in 1..(i - 1) : ~IsMin(j)
                    /\ sugg.result = cand(i)
             ELSE sugg.result = NoSuggestion

C18_Witness ==
  /\ sugg.called /\ sugg.parts = <<"user", "adx">>
  /\ Has(tree, <<"user">>) /\ tree[<<"user">>].children = <<"ad", "add">>
  /\ Has(tree, <<"g">>) /\ tree[<<"g">>].options.hidden
  /\ sugg.result = JoinChars(<<Chars("user"), Chars("ad")>>, 1)

(* ---------------------------- alias properties ------------------------ *)

AliasNodesMirrorPrimary ==
  \A q \in AliasPaths(call'.path, call'.options.aliases) :
    /\ Has(tree', q)
    /\ tree'[q].options = [call'.options EXCEPT !.hidden = TRUE]
    /\ tree'[q].handler = tree'[call'.path].handler
    /\ tree'[q].lazyImport = tree'[call'.path].lazyImport
    /\ call'.op = "registerCommand"
         => (tree'[q].handler # Undefined /\ tree'[q].lazyImport = NoLazyImport)
    /\ call'.op = "registerLazyCommand"
         => (tree'[q].handler = Undefined /\ tree'[q].lazyImport # NoLazyImport)

Started == pc \notin {"idle", "loadConfig"}

(* C23: with the version flag set, run prints the name and the version and *)
(* returns: no help, no traversal, no context, no hook and no handler,     *)
(* whatever else the command line holds.                                   *)
C23_VersionShortCircuit ==
  /\ (Started /\ pc # "version" /\ Truthy(run.parsed["version"]))
       => run.result = "version"
  /\ run.result = "version"
       => /\ Truthy(run.parsed["version"])
          /\ out = <<Line("stdout", "version", <<info.name, info.version>>)>>
          /\ events = <<>> /\ ~ctx.built
          /\ run.node = root /\ run.consumed = 0 /\ run.handler = Undefined
          /\ pc \in {"done", "exited"}
          /\ pc = "exited" => exitCode = <<0>>

C23_Witness ==
  /\ run.result = "version" /\ Truthy(run.parsed["help"])
  /\ Len(run.parsed["_"].list) > 0
  /\ Len(beforeMiddleware) > 0 /\ Has(tree, <<"greet">>)

(* C24: without the version flag, the help flag or an empty positional     *)
(* sequence makes run print the help at the resolved verbosity and return: *)
(* no traversal, no unknown-command report, no hook and no handler.        *)
C24_HelpShortCircuit ==
  /\ (Started /\ pc \notin {"version", "help"} /\ ~Truthy(run.parsed["version"])
        /\ (Truthy(run.parsed["help"]) \/ run.parsed["_"].list = <<>>))
       => run.result = "help"
  /\ run.result = "help"
       => /\ ~Truthy(run.parsed["version"])
          /\ Truthy(run.parsed["help"]) \/ run.parsed["_"].list = <<>>
          /\ run.verbosity = (IF Truthy(run.parsed["quiet"]) THEN "quiet"
                              ELSE IF Truthy(run.parsed["verbose"]) THEN "verbose"
                              ELSE "normal")
          /\ out = (IF run.verbosity = "quiet" THEN <<>>
                    ELSE <<Line("stdout", "help", formatHelpLines(tree))>>)
          /\ events = <<>> /\ ~ctx.built
          /\ run.node = root /\ run.consumed = 0 /\ run.handler = Undefined
          /\ pc \in {"done", "exited"}

C24_Witness ==
  /\ run.result = "help" /\ Truthy(run.parsed["help"])
  /\ run.parsed["_"].list = <<"greet">>
  /\ Has(tree, <<"greet">>) /\ Len(out) = 1
  /\ Len(beforeMiddleware) > 0

(* C25: every key of the raw flags carries the parsed command-line value   *)
(* when the parsed command line has the key, else the environment value,   *)
(* else the value of the config file.                                      *)
C25_FlagPrecedence ==
  ctx.built
    => \E c \in Configs :
         /\ config = [k \in DOMAIN c.file \cup DOMAIN c.env |->
                        IF k \in DOMAIN c.env THEN c.env[k] ELSE c.file[k]]
         /\ DOMAIN run.rawFlags
              = DOMAIN run.parsed \cup DOMAIN c.env \cup DOMAIN c.file
         /\ \A k \in DOMAIN run.rawFlags :
              run.rawFlags[k] = IF k \in DOMAIN run.parsed THEN run.parsed[k]
                                ELSE IF k \in DOMAIN c.env THEN c.env[k]
                                ELSE c.file[k]

C25_Witness ==
  /\ ctx.built /\ "name" \in DOMAIN config /\ config["name"] = Str("env")
  /\ "name" \in DOMAIN run.parsed
  /\ run.rawFlags["name"] = Str("Alice") /\ run.rawFlags["output"] = Str("file")

(* C26: the flags on the context given to the hooks and the handler are    *)
(* the flags the handler receives as its argument: the schema's output     *)
(* when the command has a schema, the raw flags when it has none.          *)
C26_ContextOptionsValidated ==
  \A i \in 1..Len(events) :
    events[i].e = "handlerStart" => ctx.options = events[i].flags

FirstOfKind(argv, kind) ==
  IF \E i \in 1..Len(argv) : argv[i].kind = kind
  THEN CHOOSE i \in 1..Len(argv) :
         argv[i].kind = kind /\ \A j \in 1..(i - 1) : argv[j].kind # kind
  ELSE 0

FlagBefore(argv, k, keys) ==
  \E i \in 1..(k - 1) : argv[i].kind \in {"long", "short", "longeq"} /\ argv[i].key \in keys

GlobalsOnlyBefore(argv, k, parsed) ==
  /\ Truthy(parsed["version"]) => FlagBefore(argv, k, {"version", "V"})
  /\ Truthy(parsed["help"]) => FlagBefore(argv, k, {"help", "h"})
  /\ Truthy(parsed["quiet"]) => FlagBefore(argv, k, {"quiet", "q"})
  /\ Truthy(parsed["verbose"]) => FlagBefore(argv, k, {"verbose", "v"})
  /\ "output" \in DOMAIN parsed => FlagBefore(argv, k, {"output"})

(* C28 as claimed: every token after the first positional token stays in   *)
(* the positional sequence and none of them is read as a global flag.      *)
C28_Original ==
  LET k == FirstOfKind(run.argv, "pos")
  IN (Started /\ k > 0)
       => /\ run.parsed["_"].list
               = <<run.argv[k].canon>> \o Texts(SubSeq(run.argv, k + 1, Len(run.argv)))
          /\ GlobalsOnlyBefore(run.argv, k, run.parsed)

(* C28 amended: the tokens after the first positional token stay in the    *)
(* positional sequence up to a literal "--"; the tokens after the "--" are *)
(* kept verbatim under the "--" key instead; none is read as a global      *)
(* flag.                                                                   *)
C28_StopAtFirstPositional ==
  LET k   == FirstOfKind(run.argv, "pos")
      dd  == FirstOfKind(run.argv, "dd")
      end == IF dd = 0 THEN Len(run.argv) ELSE dd - 1
  IN (Started /\ k > 0 /\ (dd = 0 \/ k < dd))
       => /\ run.parsed["_"].list
               = <<run.argv[k].canon>> \o Texts(SubSeq(run.argv, k + 1, end))
          /\ run.parsed["--"].list
               = (IF dd = 0 THEN <<>> ELSE Texts(SubSeq(run.argv, dd + 1, Len(run.argv))))
          /\ GlobalsOnlyBefore(run.argv, k, run.parsed)

C28_Witness ==
  /\ pc = "inHandler" /\ Len(run.argv) = 2
  /\ run.argv[1].text = "greet" /\ run.argv[2].text = "--help"
  /\ ctx.args = <<"--help">> /\ ~Truthy(run.parsed["help"])

(* C29: a failure outside the handler (a hook that throws, a lazy import   *)
(* that fails) ends like a handler failure: the error is printed and the   *)
(* process exits with the code of a CLIError, or with 1.                   *)
C29_OutsideFailuresMapped ==
  (run.result = "rejected" /\ pc = "exited")
    => /\ exitCode = <<IF run.error.isCLIError THEN run.error.exitCode ELSE 1>>
       /\ out # <<>>
       /\ out[Len(out)].kind \in {"error", "uncaught"}

(* C30: in quiet mode no help is printed, and every error report is still  *)
(* printed: the unknown-command message and what ctx.error prints.         *)
C30_QuietKeepsErrors ==
  (Started /\ run.verbosity = "quiet")
    => /\ \A i \in 1..Len(out) : out[i].kind # "help"
       /\ run.result = "unknown" => \E i \in 1..Len(out) : out[i].kind = "unknown"
       /\ run.result \in {"failed", "invalid"}
            => (out # <<>> /\ out[Len(out)].kind = "error")

(* ----------------------- alias dispatch properties -------------------- *)

LastOf(p) == p[Len(p)]

IsAliasOf(n, q) ==
  /\ q # n /\ Len(q) = Len(n) /\ ParentOf(q) = ParentOf(n)
  /\ Has(tree, q) /\ IsRegistered(tree[q])
  /\ LastOf(n) \in Range(tree[q].options.aliases)

WithoutPositionals(f) == [k \in (DOMAIN f) \ {"_"} |-> f[k]]

(* C22: a command line whose command segment is a hidden alias is          *)
(* dispatched like the same command line with the primary segment in its   *)
(* place: the same handler, the same remaining args, the same flags (the   *)
(* typed tokens under "_" set aside), the same schema.                     *)
C22_AliasDispatchesAsPrimary ==
  \A i \in 1..Len(events) :
    events[i].e = "handlerStart"
      => \A q \in DOMAIN tree :
           (Len(run.node) > 0 /\ tree[run.node].options.hidden /\ IsAliasOf(run.node, q))
             => LET sub    == [run.positionals EXCEPT ![Len(q)] = LastOf(q)]
                    r      == traverse(tree, sub)
                    schema == tree[r.node].options.flagsSchema
                    flags  == IF schema # Undefined
                              THEN safeParse(schema, run.rawFlags).data
                              ELSE run.rawFlags
                IN /\ events[i].name = tree[r.node].handler
                   /\ events[i].args = SubSeq(sub, r.consumed + 1, Len(sub))
                   /\ run.options.flagsSchema = schema
                   /\ WithoutPositionals(events[i].flags) = WithoutPositionals(flags)

(* C27: once the user has interrupted a running handler, the signal of the *)
(* context is aborted and every callback given to onAbort has run.         *)
C27_InterruptAbortsSignal ==
  Happened("sigint")
    => /\ ctx.aborted
       /\ ctx.abortCalls = ctx.abortListeners

(* ---------------------------- package info ---------------------------- *)

(* C31: a name or version handed to the constructor is never replaced by   *)
(* a discovered one; discovery changes only a field left at its default.   *)
C31_ExplicitInfoKept ==
  /\ info.given.name # Undefined => info.name = info.given.name
  /\ info.given.version # Undefined => info.version = info.given.version

(* ------------------------------ pipeline ------------------------------ *)

(* The pipeline step an event belongs to: 2 the before-hooks, 3 the lazy   *)
(* resolution, 5 the span start, 6 the handler, 7 the span end, 8 the      *)
(* after-hooks; 0 for what is no step (the process exit).                  *)
EventStep(e) ==
  CASE e \in {"beforeStart", "beforeEnd", "beforeThrow"} -> 2
    [] e = "import" -> 3
    [] e = "spanStart" -> 5
    [] e \in {"handlerStart", "handlerEnd", "handlerThrow", "spanOk", "spanFail",
              "print"} -> 6
    [] e = "spanEnd" -> 7
    [] e \in {"afterStart", "afterEnd", "afterThrow"} -> 8
    [] OTHER -> 0

(* The last step that can have started where run() stands, the context    *)
(* and the validation, which log no event, counted with the step before.   *)
PcStep(p) ==
  CASE p = "context" -> 0
    [] p \in {"before", "inBefore"} -> 2
    [] p = "importing" -> 3
    [] p = "validate" -> 3
    [] p = "span" -> 4
    [] p = "inHandler" -> 6
    [] p \in {"after", "inAfter", "done", "rejected", "exited"} -> 8
    [] OTHER -> 0

(* C32: within one run the steps come in the order context, before-hooks,  *)
(* lazy resolution, validation, span start, handler, span end, after-      *)
(* hooks; each happens at most once and none after a later one started.    *)
C32_PipelineOrder ==
  /\ events # <<>> => ctx.built
  /\ \A i \in 1..Len(events) : EventStep(events[i].e) <= PcStep(pc)
  /\ \A i, j \in 1..Len(events) :
        i < j /\ EventStep(events[i].e) > 0 /\ EventStep(events[j].e) > 0
          => EventStep(events[i].e) <= EventStep(events[j].e)
  /\ \A e \in {"import", "spanStart", "handlerStart", "handlerEnd", "handlerThrow",
                "spanEnd"} : CountE(e, Len(events)) <= 1
  /\ \A i, j \in 1..Len(events) :
        i < j /\ events[i].e = events[j].e
              /\ events[i].e \in {"beforeStart", "afterStart"}
          => events[i].name # events[j].name
  /\ pc = "validate" => run.handler # Undefined
  /\ pc \in {"span", "inHandler", "after", "inAfter"} /\ run.options.flagsSchema # Undefined
        => /\ safeParse(run.options.flagsSchema, run.rawFlags).success
           /\ run.validatedFlags = safeParse(run.options.flagsSchema, run.rawFlags).data

(* A lazy command has run through every step, a hook on either side.       *)
C32_Witness ==
  /\ pc = "done" /\ run.result = "completed"
  /\ \A e \in {"beforeEnd", "import", "spanStart", "handlerStart", "handlerEnd",
                "spanEnd", "afterEnd"} : Happened(e)

(* The tokens of the command line before the first literal "--", and the   *)
(* texts of those after it.                                                *)
BeforeDoubleDash(argv) ==
  IF FirstDoubleDash(argv) = 0 THEN argv
  ELSE SubSeq(argv, 1, FirstDoubleDash(argv) - 1)

AfterDoubleDash(argv) ==
  IF FirstDoubleDash(argv) = 0 THEN <<>>
  ELSE Texts(SubSeq(argv, FirstDoubleDash(argv) + 1, Len(argv)))

(* C34: the handler's args are the positionals from index `consumed` on,   *)
(* in order; what follows a literal "--" is neither among the args nor on  *)
(* the traversed path, and stands word for word under the "--" key of the  *)
(* raw flags.                                                              *)
C34_ArgsAfterConsumedPrefix ==
  Happened("handlerStart") =>
    LET h    == events[IndexOf("handlerStart")]
        head == BeforeDoubleDash(run.argv)
        k    == Len(head) - Len(run.positionals)
    IN /\ h.args = SubSeq(run.positionals, run.consumed + 1, Len(run.positionals))
       /\ run.node = SubSeq(run.positionals, 1, run.consumed)
       /\ k >= 0
       /\ \A i \in 1..Len(run.positionals) :
             run.positionals[i] \in {head[k + i].text, head[k + i].canon}
       /\ "--" \in DOMAIN run.rawFlags
       /\ run.rawFlags["--"] = Arr(AfterDoubleDash(run.argv))
       /\ ctx.options["--"] = Arr(AfterDoubleDash(run.argv))

(* A handler runs with args left over while tokens stand after the "--".   *)
C34_Witness ==
  /\ pc = "inHandler"
  /\ run.node = <<"user", "add">>
  /\ events[IndexOf("handlerStart")].args = <<"07", "--name=Alice">>
  /\ run.rawFlags["--"] = Arr(<<"user", "--">>)

(* C35: without a flags validator the handler gets the raw merged mapping  *)
(* as it is: no key added, removed or coerced.                             *)
C35_NoValidatorPassesRaw ==
  Happened("handlerStart") /\ run.options.flagsSchema = Undefined =>
    LET h == events[IndexOf("handlerStart")]
    IN /\ h.flags = run.rawFlags
       /\ h.flags = Spread(config, parseArgs(run.argv))

(* A command without a schema runs with flags from the file, the           *)
(* environment and the command line.                                       *)
C35_Witness ==
  /\ pc = "inHandler"
  /\ run.options.flagsSchema = Undefined
  /\ config # EmptyMap
  /\ Truthy(events[IndexOf("handlerStart")].flags["verbose"])
  /\ events[IndexOf("handlerStart")].flags["output"] = Str("file")

(* --------------------------- two calls of run ------------------------- *)

(* C33: when two calls of run() that reach the same lazy node interleave   *)
(* at their awaits, the import of that node is performed at most once and  *)
(* the node ends with its handler set and its pending import cleared.      *)
C33_LazyResolutionExclusive ==
  /\ \A i, j \in 1..Len(imports) : i < j => imports[i].node # imports[j].node
  /\ \A i \in 1..Len(imports) :
        imports[i].handler # Undefined
          => /\ tree[imports[i].node].handler = imports[i].handler
             /\ tree[imports[i].node].lazyImport = NoLazyImport

(* ---------------------------- context store --------------------------- *)

(* C36: the key/value store belongs to one run: what a before-hook stored  *)
(* is what the handler and the after-hooks of that run read, and no value  *)
(* stored in another run is ever in the store or read from it.             *)
C36_StoreScopedToRun ==
  /\ \A k \in DOMAIN ctx.dataStore : ctx.dataStore[k].run = nruns
  /\ ~ctx.built => ctx.dataStore = EmptyMap
  /\ ctx.got.val.run \in {0, nruns}
  /\ ctx.got.at \in {"inHandler", "inAfter"} /\ ctx.got.key \in DOMAIN ctx.dataStore
        /\ ctx.dataStore[ctx.got.key].by = "inBefore"
       => ctx.got.val = ctx.dataStore[ctx.got.key]

(* In a second run an after-hook has read what a before-hook of that run   *)
(* stored.                                                                 *)
C36_Witness ==
  /\ nruns = 2
  /\ ctx.got = [key |-> "token", at |-> "inAfter", val |-> [run |-> 2, by |-> "inBefore"]]

(* ------------------------------ read-only ----------------------------- *)

(* A step that calls traverse, suggestFullPath or printHelp: a direct call *)
(* or the help and traversal steps of run().                               *)
ReadsTree ==
  \/ trav'.called /\ trav' # trav
  \/ sugg'.called /\ sugg' # sugg
  \/ pc \in {"help", "traverse"}

(* C37: traversal, suggestion and help rendering leave the command tree    *)
(* as it is: no node, handler, pending import, option or child mapping is  *)
(* added, removed or changed.                                              *)
C37_DispatchReadsOnly == [][ReadsTree => tree' = tree]_vars

(* An unknown command was reported, with suggestion and help, after direct *)
(* calls of traverse and suggestFullPath on a tree with commands.          *)
C37_Witness ==
  /\ pc = "done" /\ run.result = "unknown" /\ Len(out) > 1
  /\ trav.called /\ trav.consumed > 0
  /\ sugg.called /\ sugg.result # <<>>
  /\ \E p \in DOMAIN tree : IsRegistered(tree[p])

(* ----------------------- permanence of registration ------------------- *)

(* C38: a successful registration stays: after any further registration of *)
(* another path, successful or not, with or without aliases, its path      *)
(* still leads to a node with its handler or pending import and its        *)
(* options, and every registered path below it still leads to its node.    *)
C38_RegistrationPermanent ==
  [][(call.op # "none" /\ outcome = "ok" /\ IsRegistration /\ call'.path # call.path)
       => \A p \in DOMAIN tree :
            (p = call.path \/ IsStrictPrefix(call.path, p)) /\ IsRegistered(tree[p])
              => /\ p \in DOMAIN tree'
                 /\ tree'[p].handler = tree[p].handler
                 /\ tree'[p].lazyImport = tree[p].lazyImport
                 /\ tree'[p].options = tree[p].options]_vars

(* --------------------------- shared resolution ------------------------ *)

(* C39: a lazy command and its aliases share one resolution: once a        *)
(* dispatch through one of these names has imported the handler, no later  *)
(* dispatch through another of them imports it again.                      *)
C39_AliasSharesResolution ==
  \A i, j \in 1..Len(imports) :
    i < j /\ imports[i].handler # Undefined
      => ~(/\ imports[j].path = imports[i].path
           /\ imports[j].symbol = imports[i].symbol
           /\ ParentOf(imports[j].node) = ParentOf(imports[i].node))

(* ------------------------------ termination --------------------------- *)

(* The ends of a run that print or exit: the version, the help, the report *)
(* of an unknown command, the exit after a failed validation or a failed   *)
(* handler, and the return after the last after-hook.                      *)
EndedAsListed ==
  \/ pc = "done" /\ run.result \in {"version", "help", "unknown", "completed"}
  \/ pc = "exited" /\ run.result \in {"invalid", "failed"}

====
